---- MODULE Spec2Model ----
(***************************************************************************)
(* TauriDBAdapter (guest-js/TauriDBAdapter.ts): the transaction            *)
(* coordinator, the table-change notifier and the statement paths of one   *)
(* adapter instance, driven by caller-supplied transaction callbacks and   *)
(* talking to the Engine over invoke().                                    *)
(*                                                                         *)
(* One action is one handler segment: the code from a resumption up to and *)
(* including the next awaited invoke() and the synchronous code that       *)
(* follows its response.  The Engine answers every command either with     *)
(* success or with a failure (invoke() rejects).  Actions of different     *)
(* transaction() calls interleave between segments, as promises do.        *)
(***************************************************************************)
EXTENDS Integers, Sequences, FiniteSets, TLC

\* ------------------------------------------------------------------ bounds
MaxOps == 2
MaxExec == 1

\* The transaction() calls in flight on the adapter: two concurrent callers.
Calls == {1, 2}

\* ------------------------------------------------------- program constants
PS_CRUD_TABLE == "ps_crud"
PS_OPERATIONS_TABLE == "powersync_operations"

\* Table names the statements and the schema of the model draw from.
UserTableNames == {"todos", "lists"}
PsPrefixed == {"ps_crud", "ps_oplog"}
TableNames == UserTableNames \cup PsPrefixed \cup {PS_OPERATIONS_TABLE}

NoMatch == "<none>"

\* A statement is its SQL text reduced to what the adapter reads of it: the
\* verb and target the three regular expressions can match, and whether the
\* text contains powersync_control.
Sql(verb, table, control) == [verb |-> verb, table |-> table, control |-> control]

Statements ==
  { Sql("INSERT", "todos", FALSE),
    Sql("UPDATE", "ps_oplog", FALSE),
    Sql("DELETE", PS_OPERATIONS_TABLE, FALSE),
    Sql("SELECT", NoMatch, FALSE),
    Sql("SELECT", NoMatch, TRUE) }

IsWriteSql(sql) == sql.verb \in {"INSERT", "UPDATE", "DELETE"}

\* A JavaScript value is a record with one field, named by what toSqlParam can
\* tell of the value (typeof, instanceof, ArrayBuffer.isView); the field holds
\* the value itself. A number is the fraction <<n, d>>, with d = 0 for NaN
\* (n = 0) and for the infinities (n = 1, n = -1). An object that is not a byte
\* container is named by what JSON.stringify makes of it.
JsNull == [null |-> "null"]
JsUndefined == [undefined |-> "undefined"]
JsBoolean(b) == [boolean |-> b]
JsNumber(n, d) == [number |-> <<n, d>>]
JsString(s) == [string |-> s]
JsBigInt(n) == [bigint |-> n]
JsSymbol == [symbol |-> "Symbol()"]
JsFunction == [function |-> "() => {}"]
JsUint8Array(bytes) == [Uint8Array |-> bytes]
JsArrayBuffer(bytes) == [ArrayBuffer |-> bytes]
\* A typed array or DataView over buffer, from byteOffset, byteLength bytes long.
JsView(buffer, byteOffset, byteLength) ==
  [view |-> [buffer |-> buffer, byteOffset |-> byteOffset, byteLength |-> byteLength]]
JsArray(items) == [array |-> items]
JsObject(json) == [object |-> json]
JsCircular == [circular |-> "a.self = a"]

kindOf(p) == CHOOSE k \in DOMAIN p : TRUE

\* The parameter sets of the model: the first parameter is the row's id.
ParamSet1 == <<JsString("1"), JsNumber(0, 1)>>
ParamSet2 == <<JsString("2"), JsNull>>

\* An optional argument is a sequence of at most one element.
Absent == <<>>
Given(x) == <<x>>
ParamsBatches ==
  { Absent, Given(<<>>), Given(<<ParamSet1>>),
    Given(<<ParamSet1, ParamSet2>>), Given(<<ParamSet2, ParamSet1>>) }

\* What get_optional may answer: a row, null, or a failure.
RowAnswers == {"row1", "row2"}
GetAnswers == RowAnswers \cup {"null", "fail"}

ReturnValues == {"success", "other"}

\* A JavaScript value that can be thrown is named by a string: a bare string
\* by its text, an object by "object " and its JSON rendering, an Error
\* instance by "Error: " and its message.
ErrorOf(message) == "Error: " \o message
ObjectOf(json) == "object " \o json

CallbackError == ErrorOf("Intentional error")
NotFoundError == ErrorOf("Query returned no results")

\* What a callback may throw of its own: an Error, or a bare string.
CallbackThrows == {CallbackError, "Intentional string"}

\* The commands whose failures the model names, and what rawInvoke rejects
\* with for each: by the shape of the rejection, a bare string, an object with
\* a message field, or an Error.
FailedCommands ==
  {"open", "close", "begin", "statement", "commit", "rollback", "execute_batch", "get_all", "get_optional"}
RawShapes == {"string", "object", "Error"}
FailureText(cmd) == cmd \o " failed"
JsonOf(text) == "{\"message\":\"" \o text \o "\"}"
RawRejection(shape, cmd) ==
  CASE shape = "string" -> FailureText(cmd)
    [] shape = "object" -> ObjectOf(JsonOf(FailureText(cmd)))
    [] shape = "Error" -> ErrorOf(FailureText(cmd))

Jsons == { JsonOf(FailureText(c)) : c \in FailedCommands }
ObjectValues == { ObjectOf(j) : j \in Jsons }
ErrorValues ==
  { ErrorOf(m) : m \in { FailureText(c) : c \in FailedCommands } \cup Jsons
                       \cup {"Intentional error", "Query returned no results"} }

instanceofError(e) == e \in ErrorValues
typeofString(e) == e \notin ErrorValues /\ e \notin ObjectValues
JSONstringify(e) == CHOOSE j \in Jsons : e = ObjectOf(j)

invokeError_Rethrow(e) == e

\* The catch block of invoke: what the wrapper throws for what rawInvoke threw.
invokeError(e) ==
  IF instanceofError(e) THEN e
  ELSE ErrorOf(IF typeofString(e) THEN e ELSE JSONstringify(e))

\* ------------------------------------------------------------------- state
VARIABLES
  userTables,       \* TauriDBAdapter.userTables
  pendingUpdates,   \* TauriDBAdapter.pendingUpdates
  updateTimer,      \* TauriDBAdapter.updateTimer # null
  timers,           \* setTimeout callbacks scheduled and not yet run
  events,           \* events handed to iterateListeners, in order
  enqCount,         \* per table: queueTableUpdate additions since the last flush
  execCount,        \* non-transactional statement calls made so far
  pc,               \* per transaction() call: where it stands
  isWrite,          \* per call: the isWrite argument
  txId,             \* per call: txId returned by begin_transaction (0: none)
  finalized,        \* per call: the closure's finalized flag
  modifiedTables,   \* per call: the closure's modifiedTables set
  ops,              \* per call: operations the callback has made on tx
  result,           \* per call: callback return value / error in flight
  outcome,          \* per call: how the promise settled
  cb,               \* per call: how the callback ended
  sent,             \* per call: commands sent for its txId, by kind
  okd,              \* per call: commands the Engine answered with success
  lateStmt,         \* per call: a statement command was sent while finalized
  txEnq,            \* per call: tables it handed to queueTableUpdate
  seen,             \* per call: its context wrote; it queried since; what the query found;
                    \* the tables registered when it ran powersync_control
  hist,             \* per call: its steps so far, each with what came in and what it left
  nextTxId,         \* Engine: next transaction id to issue
  txStack,          \* Engine: open savepoints, outermost first
  db,               \* Engine: statement effects present in the database
  rows,             \* Engine: keys of the rows execute_batch has inserted
  connOpen,         \* Engine: the named connection is open
  closed,           \* TauriDBAdapter.closed
  initialized,      \* TauriPowerSyncDatabase.initialized
  fpc,              \* per init()/close() call of the database: where it stands
  fres,             \* per such call: how the awaited adapter call settled
  facadeOps,        \* database operations called so far
  openSent,         \* open commands sent
  closeSent,        \* close commands sent
  lastSent,         \* "close": the last of the open and close commands sent is a close;
                    \* "open": no close was sent since an open succeeded;
                    \* "open failed": no close was sent since, and no open succeeded
  lifecycle,        \* the last of init()/close() to resolve
  notInit,          \* operations rejected by ensureInitialized
  firstClose,       \* what the first close() of a run of close() calls left
  lastQuery,        \* the last query or batch operation of the adapter
  swallowed,        \* commands whose failure did not reject their operation
  viaLock,          \* per transaction() call: entered through writeLock
  fnCalls,          \* per transaction() call: invocations of the lock callback
  rl,               \* readLock call: where it stands, invocations, outcome
  ol,               \* obtainLock calls: where they stand, invocations, outcome
  rawShape,         \* the shape rawInvoke's rejections have
  codec,            \* one statement with parameters: what was sent, stored, read back
  observed,         \* the calls' histories are being recorded
  readyState,       \* TauriWebSocket._readyState
  ws,               \* TauriWebSocket._ws: "null" or the plugin's socket
  unsubscribe,      \* TauriWebSocket._unsubscribe: "null" or the registered listener
  connectPending,   \* the promise of TauriPluginWebSocket.connect is not settled
  disconnectPending,\* the promise of _ws.disconnect() is not settled
  dispatched,       \* the events dispatched to the listeners and on* handlers
  transmitted,      \* the frames handed to the plugin's socket
  blobReads,        \* Blob payloads of send() whose bytes are still being read
  sendCalls,        \* calls of send()
  sendThrew,           \* what the last send() threw
  received,         \* messages the plugin delivered to the listener
  closeCalled       \* close() has been called

adapterVars == <<userTables, pendingUpdates, updateTimer, timers, events, enqCount, execCount>>
callVars == <<pc, isWrite, txId, finalized, modifiedTables, ops, result, outcome, cb>>
ghostVars == <<sent, okd, lateStmt, txEnq, seen, hist>>
engineVars == <<nextTxId, txStack, db, rows>>
facadeVars == <<connOpen, closed, initialized, fpc, fres, facadeOps, openSent, closeSent, lastSent, lifecycle, notInit, firstClose>>
lockVars == <<viaLock, fnCalls, rl, ol>>
wsVars == <<readyState, ws, unsubscribe, connectPending, disconnectPending, dispatched, transmitted, blobReads, sendCalls, sendThrew, received, closeCalled>>
\* What the transaction coordinator and the notifier never touch.
extVars == <<facadeVars, lockVars, lastQuery, rawShape, codec, observed, wsVars>>
vars == <<adapterVars, callVars, ghostVars, engineVars, extVars, swallowed>>

\* What an operation rejects with when its command cmd fails.
Failure(cmd) == invokeError(RawRejection(rawShape, cmd))

\* The init()/close() calls in flight on one TauriPowerSyncDatabase, and the
\* obtainLock calls in flight on one TauriStreamingSyncImplementation.
FacadeCalls == {1, 2}
LockCalls == {1, 2, 3}

NoOutcome == [kind |-> "pending", value |-> "-"]
Resolved(v) == [kind |-> "resolved", value |-> v]
Rejected(e) == [kind |-> "rejected", value |-> e]

NoClose == [calls |-> 0, seen |-> FALSE, state |-> <<FALSE, FALSE, FALSE>>]
NoQuery == [op |-> "-", cmds |-> <<>>, sql |-> Sql("-", NoMatch, FALSE), payload |-> <<>>, answer |-> "-",
            rows |-> {}, changes |-> 0, out |-> NoOutcome]
NoneSeen == [wrote |-> FALSE, queried |-> FALSE, found |-> {}, control |-> {}]
NoLock == [pc |-> "idle", calls |-> 0, out |-> NoOutcome]
NoCodec == [pc |-> "idle", params |-> <<>>, wire |-> <<>>, stored |-> <<>>, readBack |-> <<>>,
            out |-> NoOutcome]

Kinds == {"commit", "rollback"}
Zero == [k \in Kinds |-> 0]
Bump(f, i, k) == [f EXCEPT ![i][k] = @ + 1]

\* ------------------------------------------------------ pure functions
startsWithPs(t) == t \in PsPrefixed

insertMatch(sql) == IF sql.verb = "INSERT" THEN sql.table ELSE NoMatch
updateMatch(sql) == IF sql.verb = "UPDATE" THEN sql.table ELSE NoMatch
deleteMatch(sql) == IF sql.verb = "DELETE" THEN sql.table ELSE NoMatch

\* One `if (match) { push table; if logical push ps_crud }` block.
matchTables(table) ==
  IF table = NoMatch THEN <<>>
  ELSE IF ~startsWithPs(table) /\ table # PS_OPERATIONS_TABLE
       THEN <<table, PS_CRUD_TABLE>>
       ELSE <<table>>

extractTablesFromSql(sql) ==
  matchTables(insertMatch(sql)) \o matchTables(updateMatch(sql)) \o matchTables(deleteMatch(sql))

isPowerSyncInternalTable(t) ==
  t = "powersync_operations" \/ startsWithPs(t)

Range(s) == { s[k] : k \in DOMAIN s }

NumberisInteger(p) == p.number[2] # 0 /\ p.number[1] % p.number[2] = 0

\* new Uint8Array(buffer, byteOffset, byteLength), as Array.from lists it.
BytesOfView(v) == SubSeq(v.buffer, v.byteOffset + 1, v.byteOffset + v.byteLength)

\* What an expression evaluates to when it throws.
Thrown(e) == [throws |-> e]
IsThrown(x) == "throws" \in DOMAIN x

TypeErrorBigInt == "TypeError: Do not know how to serialize a BigInt"
TypeErrorCircular == "TypeError: Converting circular structure to JSON"

\* JSON.stringify on a parameter value that reached the fallback: a string,
\* undefined for what JSON cannot render, or a TypeError.
stringify(p) ==
  CASE kindOf(p) = "object" -> JsString(p.object)
    [] kindOf(p) \in {"function", "symbol"} -> JsUndefined
    [] kindOf(p) = "bigint" -> Thrown(TypeErrorBigInt)
    [] kindOf(p) = "circular" -> Thrown(TypeErrorCircular)

toSqlParam_BlobAsText(p) ==
  CASE kindOf(p) \in {"null", "undefined"} -> [type |-> "null"]
    [] kindOf(p) = "boolean" -> [type |-> "bool", value |-> p]
    [] kindOf(p) = "number" ->
         IF NumberisInteger(p) THEN [type |-> "int", value |-> p] ELSE [type |-> "real", value |-> p]
    [] kindOf(p) = "string" -> [type |-> "text", value |-> p]
    [] kindOf(p) \in {"Uint8Array", "view", "ArrayBuffer"} -> [type |-> "text", value |-> JsString("{}")]
    [] OTHER ->
         IF IsThrown(stringify(p)) THEN stringify(p) ELSE [type |-> "text", value |-> stringify(p)]

toSqlParam(p) ==
  CASE kindOf(p) \in {"null", "undefined"} -> [type |-> "null"]
    [] kindOf(p) = "boolean" -> [type |-> "bool", value |-> p]
    [] kindOf(p) = "number" ->
         IF NumberisInteger(p) THEN [type |-> "int", value |-> p] ELSE [type |-> "real", value |-> p]
    [] kindOf(p) = "string" -> [type |-> "text", value |-> p]
    [] kindOf(p) = "Uint8Array" -> [type |-> "blob", value |-> JsArray(p.Uint8Array)]
    [] kindOf(p) = "view" -> [type |-> "blob", value |-> JsArray(BytesOfView(p.view))]
    [] kindOf(p) = "ArrayBuffer" -> [type |-> "blob", value |-> JsArray(p.ArrayBuffer)]
    [] OTHER ->
         IF IsThrown(stringify(p)) THEN stringify(p) ELSE [type |-> "text", value |-> stringify(p)]

toSqlParams(params) == [n \in 1..Len(params) |-> toSqlParam(params[n])]

batchPayload_FirstOnly(paramsBatch) ==
  LET batch == IF paramsBatch = Absent THEN <<>> ELSE paramsBatch[1]
  IN  [n \in 1..(IF Len(batch) > 0 THEN 1 ELSE 0) |-> toSqlParams(batch[n])]

\* (paramsBatch ?? []).map(toSqlParams)
batchPayload(paramsBatch) ==
  LET batch == IF paramsBatch = Absent THEN <<>> ELSE paramsBatch[1]
  IN  [n \in 1..Len(batch) |-> toSqlParams(batch[n])]

\* ------------------------------------------------------ Engine
EngineHas(id) == \E k \in DOMAIN txStack : txStack[k].id = id
EnginePos(id) == CHOOSE k \in DOMAIN txStack : txStack[k].id = id

\* Answers a command for transaction id can have: success needs the savepoint.
Answers(id) == IF EngineHas(id) THEN BOOLEAN ELSE {FALSE}

EngineBegin ==
  /\ txStack' = Append(txStack, [id |-> nextTxId, snap |-> db, rows |-> rows])
  /\ nextTxId' = nextTxId + 1
  /\ UNCHANGED <<db, rows>>

EngineCommit(id) ==
  /\ txStack' = SubSeq(txStack, 1, EnginePos(id) - 1)
  /\ UNCHANGED <<nextTxId, db, rows>>

EngineRollback(id) ==
  /\ db' = txStack[EnginePos(id)].snap
  /\ rows' = txStack[EnginePos(id)].rows
  /\ txStack' = SubSeq(txStack, 1, EnginePos(id) - 1)
  /\ UNCHANGED nextTxId

\* db holds, per issuing context (0: the adapter's direct path, i: the tx context
\* of call i), whether an effect of one of its statements is in the database.
EngineExecute(sql, owner) ==
  /\ db' = IF IsWriteSql(sql) THEN db \cup {owner} ELSE db
  /\ UNCHANGED <<nextTxId, txStack, rows>>

\* What a query finds: the statement effects present on the connection,
\* committed or not.
EngineQuery == db

\* execute_batch runs the statement once per parameter set. An INSERT into
\* todos adds one row per set, keyed by the set's first parameter; a key that
\* is already there, or twice in the batch, makes the command fail.
BatchKeys(payload) == { payload[n][1].value : n \in 1..Len(payload) }

InsertsRows(sql) == sql.verb = "INSERT" /\ sql.table = "todos"

BatchAnswers(sql, payload) ==
  IF InsertsRows(sql) /\ (Cardinality(BatchKeys(payload)) < Len(payload) \/ BatchKeys(payload) \cap rows # {})
  THEN {FALSE}
  ELSE BOOLEAN

EngineExecuteBatch(sql, payload) ==
  /\ db' = IF IsWriteSql(sql) /\ payload # <<>> THEN db \cup {0} ELSE db
  /\ rows' = IF InsertsRows(sql) THEN rows \cup BatchKeys(payload) ELSE rows
  /\ UNCHANGED <<nextTxId, txStack>>

\* The changes count execute_batch reports: one per parameter set.
BatchChanges(sql, payload) == IF IsWriteSql(sql) THEN Len(payload) ELSE 0

\* ------------------------------------------------------ failures
\* An operation has sent cmd; failed: the Engine rejected it; rejects: the
\* operation rejects to its immediate caller because of it.
AfterFailedCallback == "rollback_transaction after a failed callback"
AfterFailedCommit == "rollback_transaction after a failed commit_transaction"

Surface(cmd, failed, rejects) ==
  swallowed' = IF failed /\ ~rejects THEN swallowed \cup {cmd} ELSE swallowed

\* ------------------------------------------------------ parameters
MaxParams == 2

\* Engine: the value a parameter is bound as, one field named by its storage
\* class. A bool is bound as the integer 1 or 0.
EngineBind(w) ==
  CASE w.type = "null" -> [NULL |-> "NULL"]
    [] w.type = "bool" -> [INTEGER |-> IF w.value.boolean THEN 1 ELSE 0]
    [] w.type = "int" -> [INTEGER |-> w.value.number[1] \div w.value.number[2]]
    [] w.type = "real" -> [REAL |-> w.value.number]
    [] w.type = "text" -> [TEXT |-> w.value.string]
    [] w.type = "blob" -> [BLOB |-> w.value.array]

\* Engine: the JSON value a stored value is returned as in a row.
EngineRead(v) ==
  CASE "NULL" \in DOMAIN v -> JsNull
    [] "INTEGER" \in DOMAIN v -> JsNumber(v.INTEGER, 1)
    [] "REAL" \in DOMAIN v -> JsNumber(v.REAL[1], v.REAL[2])
    [] "TEXT" \in DOMAIN v -> JsString(v.TEXT)
    [] "BLOB" \in DOMAIN v -> JsArray(v.BLOB)

\* Engine: a parameter it can deserialize. JSON carries neither undefined nor
\* NaN nor the infinities.
Deserializable(w) ==
  /\ ~IsThrown(w)
  /\ w.type = "text" => kindOf(w.value) = "string"
  /\ w.type = "real" => w.value.number[2] # 0

notCodec ==
  <<adapterVars, callVars, ghostVars, engineVars, facadeVars, lockVars, lastQuery, swallowed, rawShape, observed, wsVars>>

\* A statement operation evaluates toSqlParams(params) for its command; when
\* that throws, the operation rejects and no command is sent.
codec_encode ==
  /\ codec.pc = "call"
  /\ LET wire == toSqlParams(codec.params)
         thrown == { n \in DOMAIN wire : IsThrown(wire[n]) }
     IN  IF thrown = {}
         THEN codec' = [codec EXCEPT !.pc = "encoded", !.wire = wire]
         ELSE codec' = [codec EXCEPT !.pc = "done", !.wire = wire,
                          !.out = Rejected(wire[CHOOSE n \in thrown : \A m \in thrown : n <= m].throws)]
  /\ UNCHANGED notCodec

\* The execute command with the encoded parameters: the Engine binds each.
codec_store(ok) ==
  /\ codec.pc = "encoded"
  /\ ok => \A n \in DOMAIN codec.wire : Deserializable(codec.wire[n])
  /\ IF ok
     THEN codec' = [codec EXCEPT !.pc = "stored",
                                 !.stored = [n \in DOMAIN codec.wire |-> EngineBind(codec.wire[n])]]
     ELSE codec' = [codec EXCEPT !.pc = "done", !.out = Rejected(Failure("statement"))]
  /\ UNCHANGED notCodec

\* A query returns the stored values; the adapter hands the rows on as they are.
codec_read(ok) ==
  /\ codec.pc = "stored"
  /\ IF ok
     THEN codec' = [codec EXCEPT !.pc = "done", !.out = Resolved("rows"),
                                 !.readBack = [n \in DOMAIN codec.stored |-> EngineRead(codec.stored[n])]]
     ELSE codec' = [codec EXCEPT !.pc = "done", !.out = Rejected(Failure("get_all"))]
  /\ UNCHANGED notCodec

\* ------------------------------------------------------ notifier
\* enqCount saturates: Many stands for two or more.
Many == 2

NoQueue == UNCHANGED <<pendingUpdates, updateTimer, timers, enqCount>>

\* Variant: schedules a timer on every call, whether or not one is pending.
queueTableUpdate_AlwaysSchedule(tables) ==
  /\ pendingUpdates' = pendingUpdates \cup tables
  /\ updateTimer' = TRUE
  /\ timers' = timers + 1
  /\ enqCount' = [t \in TableNames |-> IF t \in tables /\ enqCount[t] < Many THEN enqCount[t] + 1 ELSE enqCount[t]]

queueTableUpdate(tables) ==
  /\ pendingUpdates' = pendingUpdates \cup tables
  /\ updateTimer' = TRUE
  /\ timers' = IF updateTimer THEN timers ELSE timers + 1
  /\ enqCount' = [t \in TableNames |-> IF t \in tables /\ enqCount[t] < Many THEN enqCount[t] + 1 ELSE enqCount[t]]

\* Variant: the timer handle is not cleared when the flush runs.
fireTableUpdates_KeepTimer ==
  /\ timers > 0
  /\ timers' = timers - 1
  /\ updateTimer' = updateTimer
  /\ pendingUpdates' = {}
  /\ events' = IF pendingUpdates = {} THEN events ELSE Append(events, pendingUpdates)
  /\ enqCount' = [t \in TableNames |-> 0]
  /\ UNCHANGED <<userTables, execCount, callVars, ghostVars, engineVars>>
  /\ UNCHANGED swallowed
  /\ UNCHANGED extVars

fireTableUpdates ==
  /\ timers > 0
  /\ timers' = timers - 1
  /\ updateTimer' = FALSE
  /\ pendingUpdates' = {}
  /\ events' = IF pendingUpdates = {} THEN events ELSE Append(events, pendingUpdates)
  /\ enqCount' = [t \in TableNames |-> 0]
  /\ UNCHANGED <<userTables, execCount, callVars, ghostVars, engineVars>>
  /\ UNCHANGED swallowed
  /\ UNCHANGED extVars

\* Called once, during schema initialization, before any statement is issued
\* (TauriPowerSyncDatabaseFull's constructor).
registerUserTables(tableNames) ==
  /\ tableNames # {}
  /\ userTables = {}
  /\ execCount = 0
  /\ \A i \in Calls : pc[i] = "idle"
  /\ userTables' = userTables \cup tableNames
  /\ UNCHANGED <<pendingUpdates, updateTimer, timers, events, enqCount, execCount>>
  /\ UNCHANGED <<callVars, ghostVars, engineVars>>
  /\ UNCHANGED swallowed
  /\ UNCHANGED extVars

\* ------------------------------------------------------ statements
\* Variant: the tables are queued whether or not the command succeeded.
execute_NotifyOnFailure(sql, ok) ==
  /\ execCount < MaxExec
  /\ execCount' = execCount + 1
  /\ IF ok THEN EngineExecute(sql, 0) ELSE UNCHANGED engineVars
  /\ LET detectedTables == Range(extractTablesFromSql(sql))
         modifiedInternalTable == \E t \in detectedTables : isPowerSyncInternalTable(t)
     IN  IF modifiedInternalTable /\ userTables # {}
         THEN queueTableUpdate(userTables)
         ELSE IF detectedTables # {}
              THEN queueTableUpdate(detectedTables)
              ELSE NoQueue
  /\ UNCHANGED <<userTables, events, callVars, ghostVars>>
  /\ Surface("execute", ~ok, ~ok)
  /\ UNCHANGED extVars

execute(sql, ok) ==
  /\ execCount < MaxExec
  /\ execCount' = execCount + 1
  /\ IF ok
     THEN /\ EngineExecute(sql, 0)
          /\ LET detectedTables == Range(extractTablesFromSql(sql))
                 modifiedInternalTable == \E t \in detectedTables : isPowerSyncInternalTable(t)
             IN  IF modifiedInternalTable /\ userTables # {}
                 THEN queueTableUpdate(userTables)
                 ELSE IF detectedTables # {}
                      THEN queueTableUpdate(detectedTables)
                      ELSE NoQueue
     ELSE /\ UNCHANGED engineVars
          /\ NoQueue
  /\ UNCHANGED <<userTables, events, callVars, ghostVars>>
  /\ Surface("execute", ~ok, ~ok)
  /\ UNCHANGED extVars

executeBatch(sql, paramsBatch, ok) ==
  /\ execCount < MaxExec
  /\ execCount' = execCount + 1
  /\ ok \in BatchAnswers(sql, batchPayload(paramsBatch))
  /\ IF ok
     THEN /\ EngineExecuteBatch(sql, batchPayload(paramsBatch))
          /\ LET tables == Range(extractTablesFromSql(sql))
             IN  IF tables # {} THEN queueTableUpdate(tables) ELSE NoQueue
          /\ lastQuery' = [NoQuery EXCEPT !.op = "executeBatch", !.cmds = <<"execute_batch">>,
                                         !.sql = sql, !.payload = batchPayload(paramsBatch),
                                         !.changes = BatchChanges(sql, batchPayload(paramsBatch)),
                                         !.out = Resolved("result")]
     ELSE /\ UNCHANGED engineVars
          /\ NoQueue
          /\ lastQuery' = [NoQuery EXCEPT !.op = "executeBatch", !.cmds = <<"execute_batch">>,
                                         !.sql = sql, !.payload = batchPayload(paramsBatch),
                                         !.out = Rejected(Failure("execute_batch"))]
  /\ UNCHANGED <<userTables, events, callVars, ghostVars>>
  /\ Surface("execute_batch", ~ok, ~ok)
  /\ UNCHANGED <<facadeVars, lockVars, rawShape, codec, observed, wsVars>>

\* ------------------------------------------------------ queries
notQuery == <<adapterVars, callVars, ghostVars, engineVars, facadeVars, lockVars, rawShape, codec, observed, wsVars>>

executeRaw(sql, ok) ==
  /\ lastQuery' = [NoQuery EXCEPT !.op = "executeRaw", !.cmds = <<"get_all">>, !.sql = sql,
                                 !.rows = IF ok THEN rows ELSE {},
                                 !.out = IF ok THEN Resolved("arrays") ELSE Rejected(Failure("get_all"))]
  /\ Surface("get_all", ~ok, ~ok)
  /\ UNCHANGED notQuery

getAll(sql, ok) ==
  /\ lastQuery' = [NoQuery EXCEPT !.op = "getAll", !.cmds = <<"get_all">>, !.sql = sql,
                                 !.rows = IF ok THEN rows ELSE {},
                                 !.out = IF ok THEN Resolved("rows") ELSE Rejected(Failure("get_all"))]
  /\ Surface("get_all", ~ok, ~ok)
  /\ UNCHANGED notQuery

\* How getOptional settles on the Engine's answer to get_optional.
GetOptionalResult(answer) ==
  IF answer = "fail" THEN Rejected(Failure("get_optional")) ELSE Resolved(answer)

getOptional(sql, answer) ==
  /\ lastQuery' = [NoQuery EXCEPT !.op = "getOptional", !.cmds = <<"get_optional">>, !.sql = sql,
                                 !.answer = answer, !.out = GetOptionalResult(answer)]
  /\ Surface("get_optional", answer = "fail", answer = "fail")
  /\ UNCHANGED notQuery

GetResult_NullPasses(answer) == GetOptionalResult(answer)

\* How get settles: it awaits getOptional and throws on null.
GetResult(answer) ==
  LET optional == GetOptionalResult(answer)
  IN  IF optional = Resolved("null") THEN Rejected(NotFoundError) ELSE optional

get(sql, answer) ==
  /\ lastQuery' = [NoQuery EXCEPT !.op = "get", !.cmds = <<"get_optional">>, !.sql = sql,
                                 !.answer = answer, !.out = GetResult(answer)]
  /\ Surface("get_optional", answer = "fail", answer \notin RowAnswers)
  /\ UNCHANGED notQuery

\* ------------------------------------------------------ transaction()
QueryStatements == { sql \in Statements : ~IsWriteSql(sql) }

\* What comes into a step of a call: the operation, its statement, the
\* Engine's answer (or the callback's value or error), the callback's choice.
NoSql == Sql("-", NoMatch, FALSE)
Ans(ok) == IF ok THEN "ok" ELSE "fail"
In(op, sql, answer, propagate) == [op |-> op, sql |-> sql, answer |-> answer, propagate |-> propagate]

\* The step of call i that took in is recorded with what it left: where the
\* call stands, the finalized flag, the commits and rollbacks sent so far, the
\* tables handed to the notifier, the outcome. s is what the call has seen.
Observe(i, s, in) ==
  IF observed
  THEN /\ seen' = [seen EXCEPT ![i] = s]
       /\ hist' = [hist EXCEPT ![i] =
                     Append(@, [in |-> in,
                                out |-> [pc |-> pc'[i], finalized |-> finalized'[i], sent |-> sent'[i],
                                         enq |-> txEnq'[i], outcome |-> outcome'[i]]])]
  ELSE UNCHANGED <<seen, hist>>

\* The callback's own choice when an awaited tx operation rejects: let the
\* rejection propagate out of the callback, or catch it and go on.
CallbackAfter(i, failed, err, propagate) ==
  IF failed /\ propagate
  THEN /\ pc' = [pc EXCEPT ![i] = "catch"]
       /\ result' = [result EXCEPT ![i] = err]
       /\ cb' = [cb EXCEPT ![i] = "threw"]
  ELSE UNCHANGED <<pc, result, cb>>

LockContextOps_WholeTx ==
  {"execute", "executeRaw", "getAll", "getOptional", "get", "commit", "rollback"}

\* The operations of the context writeLock hands to its callback.
LockContextOps == {"execute", "executeRaw", "getAll", "getOptional", "get"}

\* The callback of call i can reach op: on tx itself, or on the lock context.
ContextHas(i, op) == viaLock[i] => op \in LockContextOps

\* A statement command leaves for the Engine from the tx context of call i.
StatementSent(i) ==
  /\ pc[i] = "callback"
  /\ ops[i] < MaxOps
  /\ ops' = [ops EXCEPT ![i] = @ + 1]
  /\ lateStmt' = [lateStmt EXCEPT ![i] = @ \/ finalized[i]]

\* Variant: the callback is called although begin_transaction failed.
transaction_CallbackAnyway(i, w, ok) ==
  /\ pc[i] = "idle"
  /\ \A j \in Calls : j < i => pc[j] # "idle"
  /\ isWrite' = [isWrite EXCEPT ![i] = w]
  /\ IF ok
     THEN /\ EngineBegin
          /\ txId' = [txId EXCEPT ![i] = nextTxId]
          /\ pc' = [pc EXCEPT ![i] = "callback"]
          /\ UNCHANGED outcome
     ELSE /\ UNCHANGED <<engineVars, txId>>
          /\ pc' = [pc EXCEPT ![i] = "callback"]
          /\ UNCHANGED outcome
  /\ UNCHANGED <<adapterVars, sent, okd, lateStmt, txEnq, finalized, modifiedTables, ops, result, cb>>
  /\ Surface("begin_transaction", ~ok, ~ok)
  /\ UNCHANGED <<facadeVars, rl, ol, lastQuery, rawShape, codec, observed, wsVars>>
  /\ Observe(i, seen[i], In("begin", NoSql, Ans(ok), FALSE))

\* transaction(callback, isWrite) up to the call of the callback.
transaction(i, w, ok) ==
  /\ pc[i] = "idle"
  /\ \A j \in Calls : j < i => pc[j] # "idle"
  /\ isWrite' = [isWrite EXCEPT ![i] = w]
  /\ IF ok
     THEN /\ EngineBegin
          /\ txId' = [txId EXCEPT ![i] = nextTxId]
          /\ pc' = [pc EXCEPT ![i] = "callback"]
          /\ UNCHANGED outcome
     ELSE /\ UNCHANGED <<engineVars, txId>>
          /\ pc' = [pc EXCEPT ![i] = "done"]
          /\ outcome' = [outcome EXCEPT ![i] = Rejected(Failure("begin"))]
  /\ UNCHANGED <<adapterVars, sent, okd, lateStmt, txEnq, finalized, modifiedTables, ops, result, cb>>
  /\ Surface("begin_transaction", ~ok, ~ok)
  /\ UNCHANGED <<facadeVars, rl, ol, lastQuery, rawShape, codec, observed, wsVars>>
  /\ Observe(i, seen[i], In("begin", NoSql, Ans(ok), FALSE))

\* readTransaction / writeTransaction called with the caller's own callback.
begin_transaction(i, w, ok) ==
  /\ transaction(i, w, ok)
  /\ UNCHANGED <<viaLock, fnCalls>>

tx_execute(i, sql, ok, propagate) ==
  /\ StatementSent(i)
  /\ IF ok
     THEN /\ EngineExecute(sql, i)
          /\ modifiedTables' = [modifiedTables EXCEPT ![i] = @ \cup Range(extractTablesFromSql(sql))]
     ELSE UNCHANGED <<engineVars, modifiedTables>>
  /\ CallbackAfter(i, ~ok, Failure("statement"), propagate)
  /\ UNCHANGED <<adapterVars, isWrite, txId, finalized, outcome, sent, okd, txEnq>>
  /\ Surface("execute", ~ok, ~ok)
  /\ UNCHANGED extVars
  /\ Observe(i, IF ok /\ IsWriteSql(sql) THEN [seen[i] EXCEPT !.wrote = TRUE, !.queried = FALSE] ELSE seen[i], In("execute", sql, Ans(ok), propagate))

\* Variant: executeRaw records no table, whatever the statement.
tx_executeRaw_NoControl(i, sql, ok, propagate) ==
  /\ StatementSent(i)
  /\ UNCHANGED modifiedTables
  /\ CallbackAfter(i, ~ok, Failure("statement"), propagate)
  /\ UNCHANGED <<adapterVars, engineVars, isWrite, txId, finalized, outcome, sent, okd, txEnq>>
  /\ Surface("get_all", ~ok, ~ok)
  /\ UNCHANGED extVars
  /\ Observe(i, IF ok THEN [seen[i] EXCEPT !.queried = TRUE, !.found = EngineQuery,
                                       !.control = IF sql.control THEN @ \cup userTables ELSE @]
                ELSE seen[i], In("executeRaw", sql, Ans(ok), propagate))

tx_executeRaw(i, sql, ok, propagate) ==
  /\ StatementSent(i)
  /\ IF ok
     THEN modifiedTables' = [modifiedTables EXCEPT ![i] =
                 IF sql.control /\ userTables # {} THEN @ \cup userTables ELSE @]
     ELSE UNCHANGED modifiedTables
  /\ CallbackAfter(i, ~ok, Failure("statement"), propagate)
  /\ UNCHANGED <<adapterVars, engineVars, isWrite, txId, finalized, outcome, sent, okd, txEnq>>
  /\ Surface("get_all", ~ok, ~ok)
  /\ UNCHANGED extVars
  /\ Observe(i, IF ok THEN [seen[i] EXCEPT !.queried = TRUE, !.found = EngineQuery,
                                       !.control = IF sql.control THEN @ \cup userTables ELSE @]
                ELSE seen[i], In("executeRaw", sql, Ans(ok), propagate))

tx_getAll(i, ok, propagate) ==
  /\ StatementSent(i)
  /\ CallbackAfter(i, ~ok, Failure("statement"), propagate)
  /\ UNCHANGED <<adapterVars, engineVars, isWrite, txId, finalized, modifiedTables, outcome, sent, okd, txEnq>>
  /\ Surface("get_all", ~ok, ~ok)
  /\ UNCHANGED extVars
  /\ Observe(i, IF ok THEN [seen[i] EXCEPT !.queried = TRUE, !.found = EngineQuery] ELSE seen[i], In("getAll", NoSql, Ans(ok), propagate))

tx_getOptional(i, ok, propagate) ==
  /\ StatementSent(i)
  /\ CallbackAfter(i, ~ok, Failure("statement"), propagate)
  /\ UNCHANGED <<adapterVars, engineVars, isWrite, txId, finalized, modifiedTables, outcome, sent, okd, txEnq>>
  /\ Surface("get_optional", ~ok, ~ok)
  /\ UNCHANGED extVars
  /\ Observe(i, IF ok THEN [seen[i] EXCEPT !.queried = TRUE, !.found = EngineQuery] ELSE seen[i], In("getOptional", NoSql, Ans(ok), propagate))

\* answer: a row, "null" (no row) or "fail" (get_optional rejected)
tx_get(i, answer, propagate) ==
  /\ StatementSent(i)
  /\ CallbackAfter(i, answer \notin RowAnswers,
                   IF answer = "null" THEN NotFoundError ELSE Failure("statement"),
                   propagate)
  /\ UNCHANGED <<adapterVars, engineVars, isWrite, txId, finalized, modifiedTables, outcome, sent, okd, txEnq>>
  /\ Surface("get_optional", answer = "fail", answer \notin RowAnswers)
  /\ UNCHANGED extVars
  /\ Observe(i, IF answer # "fail" THEN [seen[i] EXCEPT !.queried = TRUE, !.found = EngineQuery] ELSE seen[i], In("get", NoSql, answer, propagate))

tx_rollback(i, ok, propagate) ==
  /\ pc[i] = "callback"
  /\ ContextHas(i, "rollback")
  /\ ops[i] < MaxOps
  /\ ops' = [ops EXCEPT ![i] = @ + 1]
  /\ finalized' = [finalized EXCEPT ![i] = TRUE]
  /\ sent' = Bump(sent, i, "rollback")
  /\ ok \in Answers(txId[i])
  /\ IF ok
     THEN /\ EngineRollback(txId[i])
          /\ okd' = Bump(okd, i, "rollback")
     ELSE UNCHANGED <<engineVars, okd>>
  /\ CallbackAfter(i, ~ok, Failure("rollback"), propagate)
  /\ UNCHANGED <<adapterVars, isWrite, txId, modifiedTables, outcome, lateStmt, txEnq>>
  /\ Surface("rollback_transaction", ~ok, ~ok)
  /\ UNCHANGED extVars
  /\ Observe(i, seen[i], In("rollback", NoSql, Ans(ok), propagate))

\* Variant: notifies before the commit_transaction command has been answered.
tx_commit_NotifyEarly(i, ok, propagate) ==
  /\ pc[i] = "callback"
  /\ ContextHas(i, "commit")
  /\ ops[i] < MaxOps
  /\ ops' = [ops EXCEPT ![i] = @ + 1]
  /\ finalized' = [finalized EXCEPT ![i] = TRUE]
  /\ sent' = Bump(sent, i, "commit")
  /\ ok \in Answers(txId[i])
  /\ IF modifiedTables[i] # {}
     THEN /\ queueTableUpdate(modifiedTables[i])
          /\ txEnq' = [txEnq EXCEPT ![i] = @ \cup modifiedTables[i]]
     ELSE NoQueue /\ UNCHANGED txEnq
  /\ IF ok
     THEN /\ EngineCommit(txId[i])
          /\ okd' = Bump(okd, i, "commit")
     ELSE UNCHANGED <<engineVars, okd>>
  /\ CallbackAfter(i, ~ok, Failure("commit"), propagate)
  /\ UNCHANGED <<userTables, events, execCount, isWrite, txId, modifiedTables, outcome, lateStmt>>
  /\ Surface("commit_transaction", ~ok, ~ok)
  /\ UNCHANGED extVars
  /\ Observe(i, seen[i], In("commit", NoSql, Ans(ok), propagate))

\* Variant: the finalized flag is set once the commit command has succeeded.
tx_commit_FinalizeAfter(i, ok, propagate) ==
  /\ pc[i] = "callback"
  /\ ContextHas(i, "commit")
  /\ ops[i] < MaxOps
  /\ ops' = [ops EXCEPT ![i] = @ + 1]
  /\ finalized' = [finalized EXCEPT ![i] = @ \/ ok]
  /\ sent' = Bump(sent, i, "commit")
  /\ ok \in Answers(txId[i])
  /\ IF ok
     THEN /\ EngineCommit(txId[i])
          /\ okd' = Bump(okd, i, "commit")
          /\ IF modifiedTables[i] # {}
             THEN /\ queueTableUpdate(modifiedTables[i])
                  /\ txEnq' = [txEnq EXCEPT ![i] = @ \cup modifiedTables[i]]
             ELSE NoQueue /\ UNCHANGED txEnq
     ELSE /\ UNCHANGED <<engineVars, okd, txEnq>>
          /\ NoQueue
  /\ CallbackAfter(i, ~ok, Failure("commit"), propagate)
  /\ UNCHANGED <<userTables, events, execCount, isWrite, txId, modifiedTables, outcome, lateStmt>>
  /\ Surface("commit_transaction", ~ok, ~ok)
  /\ UNCHANGED extVars
  /\ Observe(i, seen[i], In("commit", NoSql, Ans(ok), propagate))

tx_commit(i, ok, propagate) ==
  /\ pc[i] = "callback"
  /\ ContextHas(i, "commit")
  /\ ops[i] < MaxOps
  /\ ops' = [ops EXCEPT ![i] = @ + 1]
  /\ finalized' = [finalized EXCEPT ![i] = TRUE]
  /\ sent' = Bump(sent, i, "commit")
  /\ ok \in Answers(txId[i])
  /\ IF ok
     THEN /\ EngineCommit(txId[i])
          /\ okd' = Bump(okd, i, "commit")
          /\ IF modifiedTables[i] # {}
             THEN /\ queueTableUpdate(modifiedTables[i])
                  /\ txEnq' = [txEnq EXCEPT ![i] = @ \cup modifiedTables[i]]
             ELSE NoQueue /\ UNCHANGED txEnq
     ELSE /\ UNCHANGED <<engineVars, okd, txEnq>>
          /\ NoQueue
  /\ CallbackAfter(i, ~ok, Failure("commit"), propagate)
  /\ UNCHANGED <<userTables, events, execCount, isWrite, txId, modifiedTables, outcome, lateStmt>>
  /\ Surface("commit_transaction", ~ok, ~ok)
  /\ UNCHANGED extVars
  /\ Observe(i, seen[i], In("commit", NoSql, Ans(ok), propagate))

\* The callback ends: it returns a value, or throws an error of its own.
callback_return(i, v) ==
  /\ pc[i] = "callback"
  /\ pc' = [pc EXCEPT ![i] = "returned"]
  /\ result' = [result EXCEPT ![i] = v]
  /\ cb' = [cb EXCEPT ![i] = "returned"]
  /\ UNCHANGED <<adapterVars, engineVars, sent, okd, lateStmt, txEnq, isWrite, txId, finalized, modifiedTables, ops, outcome>>
  /\ UNCHANGED swallowed
  /\ UNCHANGED extVars
  /\ Observe(i, seen[i], In("return", NoSql, v, FALSE))

callback_throw(i, e) ==
  /\ pc[i] = "callback"
  /\ pc' = [pc EXCEPT ![i] = "catch"]
  /\ result' = [result EXCEPT ![i] = e]
  /\ cb' = [cb EXCEPT ![i] = "threw"]
  /\ UNCHANGED <<adapterVars, engineVars, sent, okd, lateStmt, txEnq, isWrite, txId, finalized, modifiedTables, ops, outcome>>
  /\ UNCHANGED swallowed
  /\ UNCHANGED extVars
  /\ Observe(i, seen[i], In("throw", NoSql, e, FALSE))

\* Variant: returns the callback's value without the implicit commit.
transaction_try_NoCommit(i, ok) ==
  /\ pc[i] = "returned"
  /\ ok
  /\ pc' = [pc EXCEPT ![i] = "done"]
  /\ outcome' = [outcome EXCEPT ![i] = Resolved(result[i])]
  /\ NoQueue
  /\ UNCHANGED <<engineVars, sent, okd, lateStmt, txEnq, result>>
  /\ UNCHANGED <<userTables, events, execCount, isWrite, txId, finalized, modifiedTables, ops, cb>>
  /\ UNCHANGED swallowed
  /\ UNCHANGED extVars
  /\ Observe(i, seen[i], In("try", NoSql, Ans(ok), FALSE))

\* Variant: resolves although the implicit commit failed.
transaction_try_SwallowCommitFailure(i, ok) ==
  /\ pc[i] = "returned"
  /\ IF finalized[i]
     THEN /\ ok
          /\ pc' = [pc EXCEPT ![i] = "done"]
          /\ outcome' = [outcome EXCEPT ![i] = Resolved(result[i])]
          /\ NoQueue
          /\ UNCHANGED <<engineVars, sent, okd, lateStmt, txEnq, result>>
     ELSE /\ ok \in Answers(txId[i])
          /\ sent' = Bump(sent, i, "commit")
          /\ UNCHANGED lateStmt
          /\ IF ok
             THEN /\ EngineCommit(txId[i])
                  /\ okd' = Bump(okd, i, "commit")
                  /\ IF modifiedTables[i] # {}
                     THEN /\ queueTableUpdate(modifiedTables[i])
                          /\ txEnq' = [txEnq EXCEPT ![i] = @ \cup modifiedTables[i]]
                     ELSE NoQueue /\ UNCHANGED txEnq
                  /\ pc' = [pc EXCEPT ![i] = "done"]
                  /\ outcome' = [outcome EXCEPT ![i] = Resolved(result[i])]
                  /\ UNCHANGED result
             ELSE /\ UNCHANGED <<engineVars, okd, txEnq, result>>
                  /\ NoQueue
                  /\ pc' = [pc EXCEPT ![i] = "done"]
                  /\ outcome' = [outcome EXCEPT ![i] = Resolved(result[i])]
  /\ UNCHANGED <<userTables, events, execCount, isWrite, txId, finalized, modifiedTables, ops, cb>>
  /\ Surface("commit_transaction", ~finalized[i] /\ ~ok, FALSE)
  /\ UNCHANGED extVars
  /\ Observe(i, seen[i], In("try", NoSql, Ans(ok), FALSE))

\* Variant: a read transaction is left without the implicit commit.
transaction_try_ReadOnlyNoCommit(i, ok) ==
  /\ pc[i] = "returned"
  /\ IF finalized[i] \/ ~isWrite[i]
     THEN /\ ok
          /\ pc' = [pc EXCEPT ![i] = "done"]
          /\ outcome' = [outcome EXCEPT ![i] = Resolved(result[i])]
          /\ NoQueue
          /\ UNCHANGED <<engineVars, sent, okd, lateStmt, txEnq, result>>
     ELSE /\ ok \in Answers(txId[i])
          /\ sent' = Bump(sent, i, "commit")
          /\ UNCHANGED lateStmt
          /\ IF ok
             THEN /\ EngineCommit(txId[i])
                  /\ okd' = Bump(okd, i, "commit")
                  /\ IF modifiedTables[i] # {}
                     THEN /\ queueTableUpdate(modifiedTables[i])
                          /\ txEnq' = [txEnq EXCEPT ![i] = @ \cup modifiedTables[i]]
                     ELSE NoQueue /\ UNCHANGED txEnq
                  /\ pc' = [pc EXCEPT ![i] = "done"]
                  /\ outcome' = [outcome EXCEPT ![i] = Resolved(result[i])]
                  /\ UNCHANGED result
             ELSE /\ UNCHANGED <<engineVars, okd, txEnq, outcome>>
                  /\ NoQueue
                  /\ pc' = [pc EXCEPT ![i] = "catch"]
                  /\ result' = [result EXCEPT ![i] = Failure("commit")]
  /\ UNCHANGED <<userTables, events, execCount, isWrite, txId, finalized, modifiedTables, ops, cb>>
  /\ Surface("commit_transaction", ~finalized[i] /\ isWrite[i] /\ ~ok, ~finalized[i] /\ isWrite[i] /\ ~ok)
  /\ UNCHANGED extVars
  /\ Observe(i, seen[i], In("try", NoSql, Ans(ok), FALSE))

\* try block after `await callback(tx)`: implicit commit, notification, return.
transaction_try(i, ok) ==
  /\ pc[i] = "returned"
  /\ IF finalized[i]
     THEN /\ ok
          /\ pc' = [pc EXCEPT ![i] = "done"]
          /\ outcome' = [outcome EXCEPT ![i] = Resolved(result[i])]
          /\ NoQueue
          /\ UNCHANGED <<engineVars, sent, okd, lateStmt, txEnq, result>>
     ELSE /\ ok \in Answers(txId[i])
          /\ sent' = Bump(sent, i, "commit")
          /\ UNCHANGED lateStmt
          /\ IF ok
             THEN /\ EngineCommit(txId[i])
                  /\ okd' = Bump(okd, i, "commit")
                  /\ IF modifiedTables[i] # {}
                     THEN /\ queueTableUpdate(modifiedTables[i])
                          /\ txEnq' = [txEnq EXCEPT ![i] = @ \cup modifiedTables[i]]
                     ELSE NoQueue /\ UNCHANGED txEnq
                  /\ pc' = [pc EXCEPT ![i] = "done"]
                  /\ outcome' = [outcome EXCEPT ![i] = Resolved(result[i])]
                  /\ UNCHANGED result
             ELSE /\ UNCHANGED <<engineVars, okd, txEnq, outcome>>
                  /\ NoQueue
                  /\ pc' = [pc EXCEPT ![i] = "catch"]
                  /\ result' = [result EXCEPT ![i] = Failure("commit")]
  /\ UNCHANGED <<userTables, events, execCount, isWrite, txId, finalized, modifiedTables, ops, cb>>
  /\ Surface("commit_transaction", ~finalized[i] /\ ~ok, ~finalized[i] /\ ~ok)
  /\ UNCHANGED extVars
  /\ Observe(i, seen[i], In("try", NoSql, Ans(ok), FALSE))

\* Variant: rethrows without attempting the rollback.
transaction_catch_NoRollback(i, ok) ==
  /\ pc[i] = "catch"
  /\ ok
  /\ pc' = [pc EXCEPT ![i] = "done"]
  /\ outcome' = [outcome EXCEPT ![i] = Rejected(result[i])]
  /\ UNCHANGED <<adapterVars, engineVars, sent, okd, lateStmt, txEnq, isWrite, txId, finalized, modifiedTables, ops, result, cb>>
  /\ UNCHANGED swallowed
  /\ UNCHANGED extVars
  /\ Observe(i, seen[i], In("catch", NoSql, Ans(ok), FALSE))

\* Variant: a failing rollback is not caught, its failure replaces the error.
transaction_catch_MaskError(i, ok) ==
  /\ pc[i] = "catch"
  /\ IF finalized[i]
     THEN /\ ok
          /\ UNCHANGED <<engineVars, sent, okd>>
     ELSE /\ ok \in Answers(txId[i])
          /\ sent' = Bump(sent, i, "rollback")
          /\ IF ok
             THEN /\ EngineRollback(txId[i])
                  /\ okd' = Bump(okd, i, "rollback")
             ELSE UNCHANGED <<engineVars, okd>>
  /\ pc' = [pc EXCEPT ![i] = "done"]
  /\ outcome' = [outcome EXCEPT ![i] =
        IF ~finalized[i] /\ ~ok THEN Rejected(Failure("rollback")) ELSE Rejected(result[i])]
  /\ UNCHANGED <<adapterVars, isWrite, txId, finalized, modifiedTables, ops, result, cb, lateStmt, txEnq>>
  /\ Surface("rollback_transaction", ~finalized[i] /\ ~ok, ~finalized[i] /\ ~ok)
  /\ UNCHANGED extVars
  /\ Observe(i, seen[i], In("catch", NoSql, Ans(ok), FALSE))

\* catch block: best-effort rollback unless finalized, then rethrow.
transaction_catch(i, ok) ==
  /\ pc[i] = "catch"
  /\ IF finalized[i]
     THEN /\ ok
          /\ UNCHANGED <<engineVars, sent, okd>>
     ELSE /\ ok \in Answers(txId[i])
          /\ sent' = Bump(sent, i, "rollback")
          /\ IF ok
             THEN /\ EngineRollback(txId[i])
                  /\ okd' = Bump(okd, i, "rollback")
             ELSE UNCHANGED <<engineVars, okd>>
  /\ pc' = [pc EXCEPT ![i] = "done"]
  /\ outcome' = [outcome EXCEPT ![i] = Rejected(result[i])]
  /\ UNCHANGED <<adapterVars, isWrite, txId, finalized, modifiedTables, ops, result, cb, lateStmt, txEnq>>
  /\ Surface(IF cb[i] = "threw" THEN AfterFailedCallback ELSE AfterFailedCommit,
             ~finalized[i] /\ ~ok, FALSE)
  /\ UNCHANGED extVars
  /\ Observe(i, seen[i], In("catch", NoSql, Ans(ok), FALSE))

\* ------------------------------------------------------ locks
\* writeLock(callback): writeTransaction with a callback that builds the lock
\* context from tx and calls the caller's callback with it.
writeLock(i, ok) ==
  /\ transaction(i, TRUE, ok)
  /\ viaLock' = [viaLock EXCEPT ![i] = TRUE]
  /\ fnCalls' = [fnCalls EXCEPT ![i] = IF ok THEN @ + 1 ELSE @]

notReadLock ==
  <<adapterVars, callVars, ghostVars, engineVars, facadeVars, lastQuery, swallowed,
    viaLock, fnCalls, ol, rawShape, codec, observed, wsVars>>

readLock_InTransaction ==
  /\ rl.pc = "idle"
  /\ rl' = [pc |-> "fn", calls |-> rl.calls + 1, out |-> NoOutcome]
  /\ EngineBegin
  /\ UNCHANGED <<adapterVars, callVars, ghostVars, facadeVars, lastQuery, swallowed,
                 viaLock, fnCalls, ol, rawShape, codec, observed, wsVars>>

\* readLock(callback): builds the context and calls the callback with it.
readLock ==
  /\ rl.pc = "idle"
  /\ rl' = [pc |-> "fn", calls |-> rl.calls + 1, out |-> NoOutcome]
  /\ UNCHANGED notReadLock

\* The operations of the read context: the adapter's own.
ctx_execute(sql, ok) == rl.pc = "fn" /\ execute(sql, ok)

ctx_executeRaw(sql, ok) == rl.pc = "fn" /\ executeRaw(sql, ok)

ctx_getAll(sql, ok) == rl.pc = "fn" /\ getAll(sql, ok)

ctx_getOptional(sql, answer) == rl.pc = "fn" /\ getOptional(sql, answer)

ctx_get(sql, answer) == rl.pc = "fn" /\ get(sql, answer)

\* The callback of readLock settles, and readLock with it.
readLock_settle(o) ==
  /\ rl.pc = "fn"
  /\ rl' = [rl EXCEPT !.pc = "done", !.out = o]
  /\ UNCHANGED notReadLock

\* TauriStreamingSyncImplementation.obtainLock
LockAborted == ErrorOf("Lock aborted")
Signals == {"none", "live", "aborted"}
NoObtain == [pc |-> "idle", signal |-> "none", calls |-> 0, cbOut |-> NoOutcome, out |-> NoOutcome]

notObtainLock ==
  <<adapterVars, callVars, ghostVars, engineVars, facadeVars, lastQuery, swallowed,
    viaLock, fnCalls, rl, rawShape, codec, observed, wsVars>>

obtainLock_NoCheck(k, signal) ==
  /\ ol[k].pc = "idle"
  /\ ol' = [ol EXCEPT ![k] = [NoObtain EXCEPT !.pc = "callback", !.signal = signal, !.calls = 1]]
  /\ UNCHANGED notObtainLock

obtainLock(k, signal) ==
  /\ ol[k].pc = "idle"
  /\ IF signal = "aborted"
     THEN ol' = [ol EXCEPT ![k] = [NoObtain EXCEPT !.pc = "done", !.signal = signal,
                                                   !.out = Rejected(LockAborted)]]
     ELSE ol' = [ol EXCEPT ![k] = [NoObtain EXCEPT !.pc = "callback", !.signal = signal,
                                                   !.calls = 1]]
  /\ UNCHANGED notObtainLock

\* The lock callback settles; obtainLock returned its promise.
obtainLock_settle(k, o) ==
  /\ ol[k].pc = "callback"
  /\ ol' = [ol EXCEPT ![k].pc = "done", ![k].cbOut = o, ![k].out = o]
  /\ UNCHANGED notObtainLock

\* ------------------------------------------------------ open / close
MaxFacadeOps == 4

\* Engine: the open and close commands on the named connection.
EngineOpen(ok) == connOpen' = (IF ok THEN TRUE ELSE connOpen)

EngineClose(ok) == connOpen' = (IF ok THEN FALSE ELSE connOpen)

\* TauriDBAdapter.open: one open command, no guard.
open(ok) ==
  /\ openSent' = openSent + 1
  /\ EngineOpen(ok)
  /\ Surface("open", ~ok, ~ok)
  /\ lastSent' = IF ok \/ lastSent = "open" THEN "open" ELSE "open failed"
  /\ UNCHANGED <<closed, closeSent>>

\* TauriDBAdapter.close: the flag is set before the command is sent.
close(ok) ==
  IF closed
  THEN UNCHANGED <<closed, closeSent, lastSent, connOpen, openSent, swallowed>>
  ELSE /\ closed' = TRUE
       /\ closeSent' = closeSent + 1
       /\ lastSent' = "close"
       /\ EngineClose(ok)
       /\ Surface("close", ~ok, ~ok)
       /\ UNCHANGED openSent

\* open() and close() called on the adapter itself.
notOpenClose ==
  <<adapterVars, callVars, ghostVars, engineVars, lockVars, rawShape, codec, observed, wsVars,
    initialized, fpc, fres, facadeOps, lifecycle, notInit, firstClose>>

adapter_open(ok) ==
  /\ openSent < MaxFacadeOps
  /\ open(ok)
  /\ lastQuery' = [NoQuery EXCEPT !.op = "open", !.cmds = <<"open">>,
                                 !.out = IF ok THEN Resolved("void") ELSE Rejected(Failure("open"))]
  /\ UNCHANGED notOpenClose

adapter_close(ok) ==
  /\ close(ok)
  /\ lastQuery' = [NoQuery EXCEPT !.op = "close",
                                 !.cmds = IF closed THEN <<>> ELSE <<"close">>,
                                 !.out = IF closed \/ ok THEN Resolved("void")
                                         ELSE Rejected(Failure("close"))]
  /\ UNCHANGED notOpenClose

NoCall == [op |-> "-", ans |-> "-", second |-> FALSE, out |-> NoOutcome,
           left |-> <<FALSE, FALSE, FALSE>>]

\* The record of call k becomes rec; an init() starts a new run of close()
\* calls, so the records of the calls that have settled are dropped.
Forget(k, rec) ==
  [j \in FacadeCalls |-> IF j = k THEN rec ELSE IF fpc[j] = "idle" THEN NoCall ELSE fres[j]]

notFacade == <<adapterVars, callVars, ghostVars, engineVars, lockVars, lastQuery, rawShape, codec, observed, wsVars>>

\* init() up to its await of adapter.open().
db_init_call(k, ok) ==
  /\ fpc[k] = "idle"
  /\ \A j \in FacadeCalls : j < k => fpc[j] # "idle"
  /\ facadeOps < MaxFacadeOps
  /\ facadeOps' = facadeOps + 1
  /\ firstClose' = NoClose
  /\ IF initialized
     THEN /\ fres' = Forget(k, NoCall)
          /\ lifecycle' = "inited"
          /\ UNCHANGED <<fpc, connOpen, closed, openSent, closeSent, lastSent, swallowed>>
     ELSE /\ open(ok)
          /\ fpc' = [fpc EXCEPT ![k] = "init"]
          /\ fres' = Forget(k, [NoCall EXCEPT !.op = "init", !.ans = IF ok THEN "ok" ELSE "fail"])
          /\ UNCHANGED lifecycle
  /\ UNCHANGED <<initialized, notInit, notFacade>>

\* init() after adapter.open() has settled.
db_init_resume(k) ==
  /\ fpc[k] = "init"
  /\ fpc' = [fpc EXCEPT ![k] = "idle"]
  /\ IF fres[k].ans = "ok"
     THEN /\ initialized' = TRUE
          /\ lifecycle' = "inited"
          /\ fres' = Forget(k, NoCall)
     ELSE /\ fres' = Forget(k, NoCall)
          /\ UNCHANGED <<initialized, lifecycle>>
  /\ firstClose' = NoClose
  /\ UNCHANGED <<connOpen, closed, facadeOps, openSent, closeSent, lastSent, notInit, swallowed, notFacade>>

\* close() up to its await of adapter.close().
db_close_call(k, ok) ==
  /\ fpc[k] = "idle"
  /\ \A j \in FacadeCalls : j < k => fpc[j] # "idle"
  /\ facadeOps < MaxFacadeOps
  /\ facadeOps' = facadeOps + 1
  /\ IF ~initialized
     THEN /\ fres' = [fres EXCEPT ![k] =
                       [op |-> "close", ans |-> "-", second |-> firstClose.calls > 0,
                        out |-> Resolved("void"), left |-> <<initialized, closed, connOpen>>]]
          /\ lifecycle' = "closed"
          /\ firstClose' = [calls |-> IF firstClose.calls = 0 THEN 1 ELSE 2,
                            seen |-> TRUE,
                            state |-> IF firstClose.seen THEN firstClose.state
                                      ELSE <<initialized, closed, connOpen>>]
          /\ UNCHANGED <<fpc, connOpen, closed, openSent, closeSent, lastSent, swallowed>>
     ELSE /\ close(ok)
          /\ fpc' = [fpc EXCEPT ![k] = "close"]
          /\ fres' = [fres EXCEPT ![k] =
                       [NoCall EXCEPT !.op = "close", !.second = firstClose.calls > 0,
                                      !.ans = IF closed \/ ok THEN "ok" ELSE "fail"]]
          /\ firstClose' = [firstClose EXCEPT !.calls = IF @ = 0 THEN 1 ELSE 2]
          /\ UNCHANGED lifecycle
  /\ UNCHANGED <<initialized, notInit, notFacade>>

\* close() after adapter.close() has settled.
db_close_resume(k) ==
  /\ fpc[k] = "close"
  /\ fpc' = [fpc EXCEPT ![k] = "idle"]
  /\ IF fres[k].ans = "ok"
     THEN /\ initialized' = FALSE
          /\ lifecycle' = "closed"
          /\ fres' = [fres EXCEPT ![k].out = Resolved("void"), ![k].ans = "-",
                                  ![k].left = <<FALSE, closed, connOpen>>]
     ELSE /\ fres' = [fres EXCEPT ![k].out = Rejected(Failure("close")), ![k].ans = "-",
                                  ![k].left = <<initialized, closed, connOpen>>]
          /\ UNCHANGED <<initialized, lifecycle>>
  /\ firstClose' = IF firstClose.seen THEN firstClose
                   ELSE [firstClose EXCEPT !.seen = TRUE,
                                           !.state = <<initialized', closed, connOpen>>]
  /\ UNCHANGED <<connOpen, closed, facadeOps, openSent, closeSent, lastSent, notInit, swallowed, notFacade>>

ensureInitialized_Never == TRUE

\* TRUE when ensureInitialized() returns, FALSE when it throws.
ensureInitialized == initialized

\* What a data operation does when ensureInitialized() throws.
NotInitialized ==
  /\ notInit' = notInit \cup {lifecycle}
  /\ UNCHANGED <<connOpen, closed, initialized, fpc, fres, facadeOps, openSent, closeSent, lastSent,
                 lifecycle, firstClose, swallowed, notFacade>>

db_execute(sql, ok) ==
  IF ensureInitialized THEN execute(sql, ok) ELSE NotInitialized

db_executeRaw(sql, ok) ==
  IF ensureInitialized THEN executeRaw(sql, ok) ELSE NotInitialized

db_getAll(sql, ok) ==
  IF ensureInitialized THEN getAll(sql, ok) ELSE NotInitialized

db_getOptional(sql, answer) ==
  IF ensureInitialized THEN getOptional(sql, answer) ELSE NotInitialized

db_get(sql, answer) ==
  IF ensureInitialized THEN get(sql, answer) ELSE NotInitialized

db_executeBatch(sql, paramsBatch, ok) ==
  IF ensureInitialized THEN executeBatch(sql, paramsBatch, ok) ELSE NotInitialized

\* adapter.readTransaction(callback) is transaction(callback, false).
db_readTransaction(i, ok) ==
  IF ensureInitialized THEN begin_transaction(i, FALSE, ok) ELSE NotInitialized

\* adapter.writeTransaction(callback) is transaction(callback, true).
db_writeTransaction(i, ok) ==
  IF ensureInitialized THEN begin_transaction(i, TRUE, ok) ELSE NotInitialized

\* ------------------------------------------------------ properties
InternalTargets == { t \in TableNames : isPowerSyncInternalTable(t) }

\* Call i has begun and no commit or rollback for its txId has succeeded yet.
Live(i) == txId[i] # 0 /\ okd[i].commit = 0 /\ okd[i].rollback = 0

\* C1: when the callback throws without having explicitly finalized, the
\* adapter sends no commit_transaction for the txId, has sent exactly one
\* rollback_transaction for it by the time the call settles, and once that
\* rollback has succeeded no effect of the transaction's statements is in
\* the database.
C1_RollbackOnThrow ==
  \A i \in Calls :
    (cb[i] = "threw" /\ ~finalized[i]) =>
      /\ sent[i].commit = 0
      /\ (pc[i] = "done" => sent[i].rollback = 1)
      /\ (okd[i].rollback = 1 => i \notin db)

C1_Witness ==
  /\ pc[1] = "done" /\ cb[1] = "threw" /\ ~finalized[1]
  /\ "todos" \in modifiedTables[1]
  /\ ops[1] = MaxOps
  /\ okd[1].rollback = 1
  /\ 1 \notin db

\* C2: when begin_transaction succeeded and the callback returned normally
\* without tx.commit()/tx.rollback(), no commit_transaction is sent before the
\* callback has returned, exactly one has been sent when the call settles, and
\* if it succeeded no rollback_transaction was sent and the call resolved with
\* the callback's return value.
C2_ImplicitCommit ==
  \A i \in Calls :
    /\ (pc[i] \in {"idle", "callback", "returned"} /\ ~finalized[i]) => sent[i].commit = 0
    /\ (pc[i] = "done" /\ cb[i] = "returned" /\ ~finalized[i]) =>
         /\ sent[i].commit = 1
         /\ (okd[i].commit = 1 =>
               /\ sent[i].rollback = 0
               /\ result[i] \in ReturnValues
               /\ outcome[i] = Resolved(result[i]))

C2_Witness ==
  /\ pc[1] = "done" /\ cb[1] = "returned" /\ ~finalized[1]
  /\ okd[1].commit = 1
  /\ outcome[1] = Resolved("other")

\* C3: at most one transaction is live per adapter: no two calls have begun
\* and are both not yet committed or rolled back.
C3_SingleFlight ==
  \A i, j \in Calls : (Live(i) /\ Live(j)) => i = j

\* C4: no statement command is sent from a transaction context after
\* tx.commit() or tx.rollback() has finalized it.
C4_NoStatementAfterFinalize ==
  \A i \in Calls : ~lateStmt[i]

\* C5: once a commit_transaction or rollback_transaction for a txId has
\* succeeded, no further commit_transaction or rollback_transaction carrying
\* that txId is sent.
C5_NoReuseAfterFinalize ==
  [][\A i \in Calls : (okd[i].commit + okd[i].rollback > 0) => sent'[i] = sent[i]]_vars

\* C6: when the callback threw E and the rollback_transaction sent in response
\* failed, the call rejects with exactly E, never with the rollback's failure.
C6_OriginalErrorPropagates ==
  \A i \in Calls :
    (pc[i] = "done" /\ cb[i] = "threw" /\ sent[i].rollback = 1 /\ okd[i].rollback = 0 /\ ~finalized[i]) =>
      /\ outcome[i] = Rejected(result[i])
      /\ result[i] \in {CallbackError, NotFoundError, Failure("statement")}

C6_Witness ==
  /\ pc[1] = "done" /\ cb[1] = "threw" /\ ~finalized[1]
  /\ sent[1].rollback = 1 /\ okd[1].rollback = 0
  /\ outcome[1] = Rejected(CallbackError)

\* C7: a transaction hands tables to queueTableUpdate only once a
\* commit_transaction for it has succeeded, and only tables its statements
\* recorded; a transaction that was rolled back, or none of whose commits
\* succeeded, has enqueued nothing.
C7_NotifyOnlyAfterCommit ==
  \A i \in Calls :
    /\ txEnq[i] \subseteq modifiedTables[i]
    /\ (okd[i].commit = 0 \/ okd[i].rollback > 0) => txEnq[i] = {}

C7_Witness ==
  /\ pc[1] = "done" /\ okd[1].commit = 1
  /\ txEnq[1] = {"todos", PS_CRUD_TABLE}

\* C8: at most one flush is scheduled at a time, it is scheduled exactly while
\* table names are pending, and when it fires every table enqueued since the
\* previous flush, however often, is delivered in exactly one event, after
\* which nothing is pending.
C8_Coalescing ==
  [][/\ timers' <= 1
     /\ (updateTimer' <=> timers' = 1)
     /\ (timers' = 1 <=> pendingUpdates' # {})
     /\ IF timers' < timers
        THEN /\ events' = Append(events, { t \in TableNames : enqCount[t] > 0 })
             /\ pendingUpdates' = {}
        ELSE events' = events]_vars

C8_Witness ==
  /\ enqCount["todos"] = Many
  /\ timers = 1
  /\ events = <<>>

\* C9: with a user table registered, every successful write to an internal
\* table (execute, executeBatch, or a transaction statement that then
\* commits) puts every registered user table into the pending notification.
C9_InternalFanOut ==
  [][/\ \A sql \in Statements :
          (/\ userTables # {}
           /\ IsWriteSql(sql)
           /\ sql.table \in InternalTargets
           /\ (execute(sql, TRUE) \/ (\E pb \in ParamsBatches : executeBatch(sql, pb, TRUE))))
          => userTables \subseteq pendingUpdates'
     /\ \A i \in Calls :
          (/\ userTables # {}
           /\ okd'[i].commit > okd[i].commit
           /\ modifiedTables[i] \cap (InternalTargets \ {PS_CRUD_TABLE}) # {})
          => userTables \subseteq pendingUpdates']_vars

\* C10: whatever user tables are registered, a successful write to a logical
\* table T through execute() puts T and ps_crud into the pending notification.
C10_LogicalWriteMarksCrud ==
  [][\A sql \in Statements :
       (/\ IsWriteSql(sql)
        /\ sql.table \notin InternalTargets
        /\ execute(sql, TRUE))
       => {sql.table, PS_CRUD_TABLE} \subseteq pendingUpdates']_vars

\* C11: every table name in the pending set is eventually delivered: the next
\* flush to run emits one event holding the whole pending set and leaves the
\* set empty with no flush scheduled, and that flush does run.
C11_EventualDelivery ==
  /\ [][(timers' < timers) =>
          /\ pendingUpdates # {}
          /\ events' = Append(events, pendingUpdates)
          /\ pendingUpdates' = {}
          /\ timers' = 0
          /\ ~updateTimer']_vars
  /\ \A t \in TableNames :
       (t \in pendingUpdates) ~>
         (/\ events # <<>>
          /\ t \in events[Len(events)]
          /\ pendingUpdates = {}
          /\ timers = 0)

C11_Witness ==
  /\ Len(events) = 2
  /\ "todos" \in events[2]
  /\ pendingUpdates = {}
  /\ timers = 0
  /\ ~updateTimer

\* C12: a second close() (after or during another close(), nothing but close()
\* calls in between) never rejects, leaves initialized / closed / the Engine's
\* connection as the first close() left them, and at most one close command is
\* ever sent.
C12_CloseIdempotent ==
  /\ closeSent <= 1
  /\ \A k \in FacadeCalls :
       (fres[k].op = "close" /\ fres[k].second /\ fres[k].out # NoOutcome) =>
         /\ fres[k].out.kind = "resolved"
         /\ firstClose.seen => fres[k].left = firstClose.state

\* The data operations of TauriPowerSyncDatabase, on one statement.
FacadeStatements == { Sql("INSERT", "todos", FALSE) }
FacadeAnswers == {"row1", "null"}
FacadeBatches == { Given(<<ParamSet1>>) }

DataOperation ==
  \/ \E sql \in FacadeStatements, ok \in BOOLEAN :
        db_execute(sql, ok) \/ db_executeRaw(sql, ok) \/ db_getAll(sql, ok)
  \/ \E sql \in FacadeStatements, a \in FacadeAnswers : db_getOptional(sql, a) \/ db_get(sql, a)
  \/ \E sql \in FacadeStatements, pb \in FacadeBatches, ok \in BOOLEAN : db_executeBatch(sql, pb, ok)
  \/ \E ok \in BOOLEAN : db_readTransaction(1, ok) \/ db_writeTransaction(1, ok)

\* C13: a data operation called when no init() has resolved yet, or when the
\* last of init()/close() to resolve is a close(), is rejected by
\* ensureInitialized and changes nothing else: no command is sent.
C13_NotInitialized ==
  [][(DataOperation /\ lifecycle # "inited") =>
       /\ notInit' = notInit \cup {lifecycle}
       /\ UNCHANGED <<adapterVars, callVars, ghostVars, engineVars, lockVars, lastQuery, swallowed, rawShape, codec, observed, wsVars,
                      connOpen, closed, initialized, fpc, fres, facadeOps, openSent, closeSent, lastSent,
                      lifecycle, firstClose>>]_vars

C13_Witness == notInit = {"new", "closed"} /\ closeSent = 1 /\ ~connOpen

\* What the operations of the adapter have last rejected with.
Rejections ==
  { outcome[i].value : i \in { j \in Calls : outcome[j].kind = "rejected" } }
    \cup (IF lastQuery.out.kind = "rejected" THEN {lastQuery.out.value} ELSE {})

\* The Error a caller is to see when command cmd fails: the message is the
\* string itself, the JSON rendering of the object, or the Error is the same.
ExpectedError(cmd) ==
  CASE rawShape = "string" -> ErrorOf(FailureText(cmd))
    [] rawShape = "object" -> ErrorOf(JsonOf(FailureText(cmd)))
    [] rawShape = "Error" -> RawRejection("Error", cmd)

ChannelFailuresNormalized ==
  /\ lastQuery.out.kind = "rejected" /\ lastQuery.out.value # NotFoundError =>
       lastQuery.out.value = ExpectedError(lastQuery.cmds[1])
  /\ \A i \in Calls :
       outcome[i].kind = "rejected" =>
         outcome[i].value \in { ExpectedError(c) : c \in {"begin", "statement", "commit", "rollback"} }
                                \cup {NotFoundError} \cup CallbackThrows

C15_OnlyRollbackAfterCallbackSwallowed == swallowed \subseteq {AfterFailedCallback}

\* C15 amended: the only Engine failure that does not reject the operation that
\* issued the command is that of the rollback sent automatically by the catch
\* block, after a failed callback or after a failed implicit commit.
C15_OnlyAutomaticRollbackSwallowed ==
  swallowed \subseteq {AfterFailedCallback, AfterFailedCommit}

C15_Witness ==
  /\ swallowed = {AfterFailedCommit}
  /\ outcome[1] = Rejected(Failure("commit"))
  /\ lastQuery.out = Rejected(Failure("close"))

\* C16: get sends one get_optional command; it rejects with the not-found
\* error exactly when the Engine answered null, and resolves with the row
\* getOptional gives when the Engine answered a row. On the adapter, by the
\* record of the last query; on a transaction context, by the step tx.get
\* takes: one statement, and the not-found error reaches the callback exactly
\* when the answer is null.
C16_GetRequired ==
  /\ [](lastQuery.op = "get" =>
         /\ lastQuery.cmds = <<"get_optional">>
         /\ (lastQuery.out = Rejected(NotFoundError)) <=> (lastQuery.answer = "null")
         /\ lastQuery.answer \in RowAnswers => lastQuery.out = Resolved(lastQuery.answer))
  /\ [][\A i \in Calls, a \in GetAnswers :
          tx_get(i, a, TRUE) =>
            /\ ops'[i] = ops[i] + 1
            /\ (pc'[i] = "catch" /\ result'[i] = NotFoundError) <=> (a = "null")
            /\ a \in RowAnswers => (pc'[i] = "callback" /\ UNCHANGED <<result, cb>>)]_vars

C16_Witness ==
  /\ lastQuery.op = "get"
  /\ lastQuery.out = Rejected(NotFoundError)
  /\ outcome[1] = Rejected(NotFoundError)
  /\ ops[1] = 1

\* The statements a batch runs in the model.
BatchStatements == { Sql("INSERT", "todos", FALSE), Sql("UPDATE", "ps_oplog", FALSE) }

\* C17: a successful executeBatch has sent one execute_batch command with the
\* SQL and every parameter set, converted, in the order given (none when
\* paramsBatch is absent), and returns the Engine's changes count; N sets
\* inserting N new rows return N and leave N more rows, and getAll returns
\* exactly the rows that are there.
C17_ExecuteBatch ==
  [][/\ \A sql \in BatchStatements, pb \in ParamsBatches :
          executeBatch(sql, pb, TRUE) =>
            LET given == IF pb = Absent THEN <<>> ELSE pb[1]
                N == Len(given)
            IN  /\ lastQuery'.cmds = <<"execute_batch">>
                /\ lastQuery'.sql = sql
                /\ Len(lastQuery'.payload) = N
                /\ \A n \in 1..N : lastQuery'.payload[n] = toSqlParams(given[n])
                /\ lastQuery'.out.kind = "resolved"
                /\ lastQuery'.changes = N
                /\ InsertsRows(sql) => Cardinality(rows') = Cardinality(rows) + N
     /\ \A sql \in Statements : getAll(sql, TRUE) => lastQuery'.rows = rows]_vars

C17_Witness ==
  /\ lastQuery.op = "getAll"
  /\ Cardinality(lastQuery.rows) = 2
  /\ execCount = 1

\* C18: a call made through writeLock invokes the callback once, and only
\* after begin_transaction with isWrite = true succeeded; every statement of
\* the callback is sent while neither commit nor rollback has been sent; the
\* commit is sent when the callback returned, the rollback (and no commit)
\* when it threw.
C18_WriteLock ==
  /\ [](\A i \in Calls : viaLock[i] =>
           /\ fnCalls[i] <= 1
           /\ (fnCalls[i] = 1) <=> (txId[i] # 0)
           /\ fnCalls[i] = 1 => isWrite[i]
           /\ ops[i] > 0 => fnCalls[i] = 1
           /\ ~lateStmt[i]
           /\ (pc[i] = "done" /\ cb[i] = "returned") =>
                /\ sent[i].commit = 1
                /\ okd[i].commit = 1 => (sent[i].rollback = 0 /\ outcome[i] = Resolved(result[i]))
           /\ (pc[i] = "done" /\ cb[i] = "threw") =>
                (sent[i].commit = 0 /\ sent[i].rollback = 1 /\ outcome[i].kind = "rejected"))
  /\ [][\A i \in Calls : (viaLock[i] /\ ops'[i] # ops[i]) => (Live(i) /\ sent[i] = Zero)]_vars

C18_Witness ==
  /\ viaLock[1]
  /\ pc[1] = "done"
  /\ cb[1] = "returned"
  /\ ops[1] = 2
  /\ okd[1].commit = 1
  /\ db = {1}
  /\ outcome[1] = Resolved("success")

\* C19: readLock invokes its callback once; the steps of readLock itself
\* (calling the callback, settling with it) send nothing and change nothing
\* of the adapter; while the callback runs no transaction command is sent and
\* no transaction state changes.
C19_ReadLockFrame ==
  /\ [](rl.pc # "idle" => rl.calls = 1)
  /\ [](rl.pc = "done" => rl.out # NoOutcome)
  /\ [][rl' # rl => UNCHANGED <<adapterVars, callVars, ghostVars, engineVars, lastQuery, swallowed>>]_vars
  /\ [][rl.pc = "fn" => UNCHANGED <<callVars, ghostVars, nextTxId, txStack>>]_vars

C19_Witness ==
  /\ rl = [pc |-> "done", calls |-> 1, out |-> Resolved("success")]
  /\ execCount = 1
  /\ events # <<>>
  /\ lastQuery.op = "get"
  /\ txStack = <<>>
  /\ nextTxId = 1

\* C20: obtainLock called with an aborted signal rejects with 'Lock aborted'
\* and never invokes the callback; otherwise it invokes the callback once and
\* settles as the callback settles.
C20_ObtainLock ==
  \A k \in LockCalls :
    ol[k].pc # "idle" =>
      IF ol[k].signal = "aborted"
      THEN ol[k].pc = "done" /\ ol[k].out = Rejected(LockAborted) /\ ol[k].calls = 0
      ELSE /\ ol[k].calls = 1
           /\ ol[k].pc = "done" => (ol[k].out # NoOutcome /\ ol[k].out = ol[k].cbOut)
           /\ ol[k].pc = "callback" => ol[k].out = NoOutcome

C20_Witness ==
  /\ ol[1] = [NoObtain EXCEPT !.pc = "done", !.signal = "aborted", !.out = Rejected(LockAborted)]
  /\ ol[2].signal = "live" /\ ol[2].calls = 1 /\ ol[2].out = Rejected(CallbackError)
  /\ ol[3].pc = "callback"

\* C28: at most one obtainLock callback is pending at any time.
C28_NoOverlap ==
  \A k, m \in LockCalls : (ol[k].pc = "callback" /\ ol[m].pc = "callback") => k = m

\* C23: a query through the context of a write transaction that is still
\* open (neither committed nor rolled back) finds the effects of the statements
\* executed successfully through the same context earlier in the transaction.
C23_SelfVisibility ==
  \A i \in Calls :
    (isWrite[i] /\ Live(i) /\ sent[i] = Zero /\ seen[i].wrote /\ seen[i].queried) => i \in seen[i].found

\* C24: when the callback failed with E and the rollback sent in response
\* failed too, the call does not resolve, and what it reports differs from the
\* rejection with E that it reports when the rollback succeeded.
C24_RollbackFailureSurfaced ==
  \A i \in Calls :
    (pc[i] = "done" /\ cb[i] = "threw" /\ ~finalized[i] /\ sent[i].rollback = 1 /\ okd[i].rollback = 0) =>
      /\ outcome[i].kind = "rejected"
      /\ outcome[i] # Rejected(result[i])

\* C25: tx.commit() and tx.rollback() set finalized in the step that sends
\* their command, whether or not the command succeeds; once the callback has
\* finalized, the coordinator settles the call without sending a commit or a
\* rollback, without touching the Engine and without enqueuing any table:
\* it resolves with the callback's value, or rejects with what it threw.
C25_ExplicitFinalization ==
  [][\A i \in Calls :
       /\ (pc[i] = "callback" /\ sent'[i] # sent[i]) => finalized'[i]
       /\ finalized[i] => finalized'[i]
       /\ (finalized[i] /\ pc[i] \in {"returned", "catch"}) =>
            /\ sent'[i] = sent[i]
            /\ okd'[i] = okd[i]
            /\ txEnq'[i] = txEnq[i]
            /\ pc'[i] # pc[i] =>
                 /\ pc'[i] = "done"
                 /\ UNCHANGED <<engineVars, pendingUpdates, updateTimer, timers, enqCount>>
                 /\ outcome'[i] = IF pc[i] = "returned" THEN Resolved(result[i]) ELSE Rejected(result[i])]_vars

C25_Witness ==
  /\ pc[1] = "done" /\ finalized[1] /\ cb[1] = "returned"
  /\ sent[1] = [commit |-> 1, rollback |-> 0]
  /\ okd[1].commit = 0
  /\ txStack # <<>>
  /\ outcome[1] = Resolved("success")

\* C27: the user tables registered when executeRaw on a transaction context
\* has run a powersync_control statement are among the tables recorded for
\* the transaction; the step in which a commit of the transaction succeeds
\* puts them all in the pending set, with a flush timer set; and a table
\* leaves the pending set only in the flush that delivers the whole set as
\* one event.
C27_ControlNotifiesUserTables ==
  [][/\ \A i \in Calls : seen'[i].control \subseteq modifiedTables'[i]
     /\ \A i \in Calls :
          okd'[i].commit > okd[i].commit =>
            /\ seen[i].control \subseteq pendingUpdates'
            /\ seen[i].control \subseteq txEnq'[i]
            /\ seen[i].control # {} => timers' > 0
     /\ \/ pendingUpdates \subseteq pendingUpdates'
        \/ pendingUpdates' = {} /\ events' = Append(events, pendingUpdates)]_vars

C27_Witness ==
  /\ pc[1] = "done" /\ okd[1].commit = 1
  /\ userTables = UserTableNames
  /\ seen[1].control = UserTableNames
  /\ modifiedTables[1] = UserTableNames
  /\ \E n \in DOMAIN events : UserTableNames \subseteq events[n]

\* C29: the effect of a statement that execute() or executeBatch() ran
\* successfully on the adapter's direct path stays in the database when a
\* write transaction that was open on the adapter is rolled back.
C29_DirectStatementsPersist ==
  [][\A i \in Calls :
       (isWrite[i] /\ Live(i) /\ 0 \in db /\ okd'[i].rollback > okd[i].rollback) => 0 \in db']_vars

\* C30: once a call whose begin_transaction succeeded has settled, a commit
\* or a rollback of its transaction has succeeded, or a rollback of it was
\* sent and failed; and a call that has settled after one of its commit
\* commands failed has sent a rollback.
C30_TransactionClosedOnSettle ==
  \A i \in Calls :
    (pc[i] = "done" /\ txId[i] # 0) =>
      /\ \/ okd[i].commit > 0
         \/ okd[i].rollback > 0
         \/ sent[i].rollback > okd[i].rollback
      /\ sent[i].commit > okd[i].commit => sent[i].rollback > 0

\* C26: two transaction() calls that differ in isWrite and were given the
\* same callback behaviour and the same Engine answers, step for step, have
\* left the same after every step: where the call stands, the finalized flag,
\* the commits and rollbacks sent, the tables handed to the notifier and the
\* outcome.
C26_SameProtocol ==
  \A i, j \in Calls :
    isWrite[i] # isWrite[j] =>
      \A n \in DOMAIN hist[i] \cap DOMAIN hist[j] :
        (\A m \in 1..n : hist[i][m].in = hist[j][m].in) => hist[i][n].out = hist[j][n].out

C26_Witness ==
  /\ pc[1] = "done" /\ pc[2] = "done"
  /\ ~isWrite[1] /\ isWrite[2]
  /\ Len(hist[1]) > 3
  /\ \A n \in DOMAIN hist[1] : n \in DOMAIN hist[2] /\ hist[2][n].in = hist[1][n].in
  /\ hist[2][Len(hist[2])].out.sent.commit = 1
  /\ hist[2][Len(hist[2])].out.enq # {}
  /\ outcome[2] = Resolved("success")

\* C31: a call whose begin_transaction failed is settled, rejected with that
\* failure; its callback was not called (nor the lock callback of writeLock),
\* it has sent no statement, commit or rollback, recorded no table and handed
\* none to the notifier; and the failing step leaves the notifier as it was.
C31_BeginFailure ==
  [][\A i \in Calls :
       (pc'[i] # "idle" /\ txId'[i] = 0) =>
         /\ pc'[i] = "done"
         /\ outcome'[i] = Rejected(Failure("begin"))
         /\ cb'[i] = "none" /\ fnCalls'[i] = 0
         /\ ops'[i] = 0 /\ sent'[i] = Zero /\ ~lateStmt'[i]
         /\ modifiedTables'[i] = {} /\ txEnq'[i] = {}
         /\ pc[i] = "idle" =>
              UNCHANGED <<pendingUpdates, updateTimer, timers, events, enqCount, engineVars>>]_vars

C31_Witness ==
  /\ pc[1] = "done" /\ txId[1] = 0 /\ viaLock[1]
  /\ outcome[1] = Rejected(Failure("begin"))

\* C32: a step in which execute() or executeBatch() fails leaves the pending
\* set, the timer flag, the timers and the enqueue counts as they were; a step
\* in which tx.execute() fails leaves them and the call's modifiedTables as
\* they were.
C32_FailedStatementRecordsNothing ==
  [][/\ (\E sql \in Statements : execute(sql, FALSE)) =>
          UNCHANGED <<pendingUpdates, updateTimer, timers, enqCount>>
     /\ (\E sql \in Statements : executeBatch(sql, Given(<<ParamSet1>>), FALSE)) =>
          UNCHANGED <<pendingUpdates, updateTimer, timers, enqCount>>
     /\ \A i \in Calls :
          (\E sql \in Statements, p \in BOOLEAN : tx_execute(i, sql, FALSE, p)) =>
            UNCHANGED <<modifiedTables, txEnq, pendingUpdates, updateTimer, timers, enqCount>>]_vars

C32_Witness ==
  /\ lastQuery.op = "executeBatch" /\ lastQuery.out = Rejected(Failure("execute_batch"))
  /\ IsWriteSql(lastQuery.sql)
  /\ pc[1] = "catch" /\ result[1] = Failure("statement") /\ ops[1] = 1
  /\ modifiedTables[1] = {}
  /\ pendingUpdates = {} /\ ~updateTimer /\ events = <<>>

\* C33: while the last of the open and close commands to be sent is a close,
\* no step sends a statement or begins a transaction.
C33_NoCommandAfterClose ==
  [][(lastSent = "close" /\ lastSent' = "close") =>
       UNCHANGED <<execCount, lastQuery, pc, txId, nextTxId>>]_vars

\* C34: when the last of init() and close() to resolve is a close() and none
\* of them is in flight, no open command that succeeded is left without a
\* close command sent after it.
C34_CloseMatchesOpen ==
  (lifecycle = "closed" /\ \A k \in FacadeCalls : fpc[k] = "idle") => lastSent # "open"

\* ---------------------------------------------------------------------
\* TauriWebSocket: the browser WebSocket interface over the plugin's socket.
\* The plugin settles connect and disconnect when it sees fit and delivers
\* messages for as long as the listener is registered. Event payloads are
\* left out, and listeners and on* handlers are taken not to throw.

CONNECTING == 0
OPEN == 1
CLOSING == 2
CLOSED == 3

MaxSends == 2
MaxMessages == 2

MessageTypes == {"Text", "Binary", "Ping", "Pong", "Close"}
SendData == {"string", "ArrayBuffer", "ArrayBufferView", "Blob"}

notWebSocket ==
  <<adapterVars, callVars, ghostVars, engineVars, facadeVars, lockVars, lastQuery, swallowed,
    rawShape, codec, observed>>

cleanup ==
  /\ unsubscribe' = "null"
  /\ ws' = "null"

\* The continuation of _connect after `await TauriPluginWebSocket.connect(url)`.
connect(ok) ==
  /\ connectPending
  /\ connectPending' = FALSE
  /\ IF ok
     THEN /\ ws' = "socket"
          /\ unsubscribe' = "listener"
          /\ readyState' = OPEN
          /\ dispatched' = Append(dispatched, "open")
     ELSE /\ readyState' = CLOSED
          /\ dispatched' = dispatched \o <<"error", "close">>
          /\ UNCHANGED <<ws, unsubscribe>>
  /\ UNCHANGED <<disconnectPending, transmitted, blobReads, sendCalls, sendThrew, received, closeCalled>>
  /\ UNCHANGED notWebSocket

\* The listener registered by _connect: the plugin delivers one message.
handleMessage(type) ==
  /\ unsubscribe = "listener"
  /\ received < MaxMessages
  /\ received' = received + 1
  /\ IF type \in {"Text", "Binary"}
     THEN /\ dispatched' = Append(dispatched, "message")
          /\ UNCHANGED <<readyState, ws, unsubscribe>>
     ELSE IF type = "Close"
     THEN /\ readyState' = CLOSED
          /\ dispatched' = Append(dispatched, "close")
          /\ cleanup
     ELSE UNCHANGED <<readyState, ws, unsubscribe, dispatched>>
  /\ UNCHANGED <<connectPending, disconnectPending, transmitted, blobReads, sendCalls, sendThrew, closeCalled>>
  /\ UNCHANGED notWebSocket

send(data) ==
  /\ sendCalls < MaxSends
  /\ sendCalls' = sendCalls + 1
  /\ IF readyState # OPEN \/ ws = "null"
     THEN /\ sendThrew' = "InvalidStateError"
          /\ UNCHANGED <<transmitted, blobReads>>
     ELSE /\ sendThrew' = "none"
          /\ IF data = "Blob"
             THEN blobReads' = blobReads + 1 /\ UNCHANGED transmitted
             ELSE /\ transmitted' = Append(transmitted, IF data = "string" THEN "Text" ELSE "Binary")
                  /\ UNCHANGED blobReads
  /\ UNCHANGED <<readyState, ws, unsubscribe, connectPending, disconnectPending, dispatched, received, closeCalled>>
  /\ UNCHANGED notWebSocket

\* The bytes of a Blob given to send() have been read, or the read failed.
send_arrayBuffer(ok) ==
  /\ blobReads > 0
  /\ blobReads' = blobReads - 1
  /\ IF ok /\ ws # "null"
     THEN transmitted' = Append(transmitted, "Binary")
     ELSE UNCHANGED transmitted
  /\ UNCHANGED <<readyState, ws, unsubscribe, connectPending, disconnectPending, dispatched, sendCalls, sendThrew, received, closeCalled>>
  /\ UNCHANGED notWebSocket

ws_close ==
  /\ closeCalled' = TRUE
  /\ IF readyState = CLOSED \/ readyState = CLOSING
     THEN UNCHANGED <<readyState, ws, unsubscribe, disconnectPending>>
     ELSE IF ws # "null"
     THEN /\ readyState' = CLOSING
          /\ disconnectPending' = TRUE
          /\ UNCHANGED <<ws, unsubscribe>>
     ELSE /\ readyState' = CLOSED
          /\ cleanup
          /\ UNCHANGED disconnectPending
  /\ UNCHANGED <<connectPending, dispatched, transmitted, blobReads, sendCalls, sendThrew, received>>
  /\ UNCHANGED notWebSocket

\* The then and the catch of `this._ws.disconnect()` in close().
disconnect(ok) ==
  /\ disconnectPending
  /\ disconnectPending' = FALSE
  /\ readyState' = CLOSED
  /\ dispatched' = IF ok THEN Append(dispatched, "close") ELSE dispatched
  /\ cleanup
  /\ UNCHANGED <<connectPending, transmitted, blobReads, sendCalls, sendThrew, received, closeCalled>>
  /\ UNCHANGED notWebSocket

\* How many events of one type were dispatched.
Dispatched(type) == Cardinality({n \in 1..Len(dispatched) : dispatched[n] = type})

\* C35: readyState never moves back, and once it is CLOSED no open event is
\* dispatched.
C35_ReadyStateForward ==
  [][/\ readyState' >= readyState
     /\ readyState = CLOSED => Dispatched("open")' = Dispatched("open")]_vars

\* C36: at most one close event is dispatched.
C36_OneCloseEvent == Dispatched("close") <= 1

\* C37: the step in which readyState becomes CLOSED dispatches a close event.
C37_ClosedDispatchesClose ==
  [][(readyState # CLOSED /\ readyState' = CLOSED) =>
       Dispatched("close")' = Dispatched("close") + 1]_vars

\* C38: a frame is handed to the plugin's socket only in a step that starts
\* with readyState OPEN; a send() that starts otherwise throws
\* InvalidStateError; and once close() has been called, the bytes of a Blob
\* given to an earlier send() are not transmitted.
C38_TransmitOnlyWhileOpen ==
  [][/\ transmitted' # transmitted => readyState = OPEN
     /\ (sendCalls' # sendCalls /\ readyState # OPEN) =>
          sendThrew' = "InvalidStateError" /\ UNCHANGED <<transmitted, blobReads>>
     /\ (closeCalled /\ blobReads' < blobReads) => transmitted' = transmitted]_vars

\* The parameter values of the model.
Bytes == { <<>>, <<1, 2, 255>>, <<7, 8>> }
JsValues ==
  { JsNull, JsUndefined, JsBoolean(TRUE), JsBoolean(FALSE),
    JsNumber(0, 1), JsNumber(42, 1), JsNumber(-100, 1), JsNumber(5, 2), JsNumber(-5, 2),
    JsNumber(0, 0), JsNumber(1, 0),
    JsString(""), JsString("1"), JsString("true"),
    JsView(<<0, 1, 2, 3>>, 1, 2), JsArrayBuffer(<<7, 8>>),
    JsObject("{\"a\":1}"), JsObject("[1,2]"),
    JsBigInt(10), JsCircular, JsFunction, JsSymbol }
    \cup { JsUint8Array(b) : b \in Bytes }

ParamLists == UNION { [1..n -> JsValues] : n \in 1..MaxParams }

SqlParamTypes == {"null", "bool", "int", "real", "text", "blob"}

\* The bytes of a byte buffer or byte view, in order.
BytesIn(p) ==
  CASE kindOf(p) = "Uint8Array" -> p.Uint8Array
    [] kindOf(p) = "ArrayBuffer" -> p.ArrayBuffer
    [] kindOf(p) = "view" -> [k \in 1..p.view.byteLength |-> p.view.buffer[p.view.byteOffset + k]]

\* The variant the classification is to give for p.
Classified(p, w) ==
  /\ ~IsThrown(w)
  /\ w.type \in SqlParamTypes
  /\ CASE kindOf(p) \in {"null", "undefined"} -> w = [type |-> "null"]
        [] kindOf(p) = "boolean" -> w = [type |-> "bool", value |-> p]
        [] kindOf(p) = "number" ->
             /\ w.value = p
             /\ w.type = IF p.number[2] # 0 /\ p.number[1] % p.number[2] = 0 THEN "int" ELSE "real"
        [] kindOf(p) = "string" -> w = [type |-> "text", value |-> p]
        [] kindOf(p) \in {"Uint8Array", "ArrayBuffer", "view"} -> w = [type |-> "blob", value |-> JsArray(BytesIn(p))]
        [] OTHER -> w.type = "text" /\ kindOf(w.value) = "string"

\* C21: every parameter of a statement is classified, without failure, as the
\* one variant its value calls for: null and undefined as null, a boolean as
\* bool, an integral number as int, any other number as real, a string as
\* text, a byte buffer or view as blob with its bytes in order, anything else
\* as text.
C21_Classification ==
  codec.pc \notin {"idle", "call"} =>
    /\ Len(codec.wire) = Len(codec.params)
    /\ \A n \in DOMAIN codec.params : Classified(codec.params[n], codec.wire[n])

\* The scalar values the round trip is stated for: null, a boolean, an integer,
\* a text, a blob.
Representable(p) ==
  \/ kindOf(p) \in {"null", "boolean", "string", "Uint8Array"}
  \/ kindOf(p) = "number" /\ p.number[2] = 1

\* The value read back, r, equals the value written, v: a blob by its bytes.
EqualValue(v, r) ==
  IF kindOf(v) = "Uint8Array" THEN kindOf(r) = "array" /\ r.array = v.Uint8Array ELSE r = v

InitAdapter ==
  /\ userTables = {}
  /\ pendingUpdates = {}
  /\ updateTimer = FALSE
  /\ timers = 0
  /\ events = <<>>
  /\ enqCount = [t \in TableNames |-> 0]
  /\ execCount = 0
  /\ pc = [i \in Calls |-> "idle"]
  /\ isWrite = [i \in Calls |-> FALSE]
  /\ txId = [i \in Calls |-> 0]
  /\ finalized = [i \in Calls |-> FALSE]
  /\ modifiedTables = [i \in Calls |-> {}]
  /\ ops = [i \in Calls |-> 0]
  /\ result = [i \in Calls |-> "-"]
  /\ outcome = [i \in Calls |-> NoOutcome]
  /\ cb = [i \in Calls |-> "none"]
  /\ sent = [i \in Calls |-> Zero]
  /\ okd = [i \in Calls |-> Zero]
  /\ lateStmt = [i \in Calls |-> FALSE]
  /\ txEnq = [i \in Calls |-> {}]
  /\ seen = [i \in Calls |-> NoneSeen]
  /\ hist = [i \in Calls |-> <<>>]
  /\ nextTxId = 1
  /\ txStack = <<>>
  /\ db = {}
  /\ rows = {}
  /\ readyState = CONNECTING
  /\ ws = "null"
  /\ unsubscribe = "null"
  /\ connectPending = TRUE
  /\ disconnectPending = FALSE
  /\ dispatched = <<>>
  /\ transmitted = <<>>
  /\ blobReads = 0
  /\ sendCalls = 0
  /\ sendThrew = "none"
  /\ received = 0
  /\ closeCalled = FALSE
  /\ connOpen = FALSE
  /\ closed = FALSE
  /\ initialized = FALSE
  /\ fpc = [k \in FacadeCalls |-> "idle"]
  /\ fres = [k \in FacadeCalls |-> NoCall]
  /\ facadeOps = 0
  /\ openSent = 0
  /\ closeSent = 0
  /\ lastSent = "none"
  /\ lifecycle = "new"
  /\ notInit = {}
  /\ firstClose = NoClose
  /\ lastQuery = NoQuery
  /\ swallowed = {}
  /\ viaLock = [i \in Calls |-> FALSE]
  /\ fnCalls = [i \in Calls |-> 0]
  /\ rl = NoLock
  /\ ol = [k \in LockCalls |-> NoObtain]

\* Tauri's invoke rejects with a plain string on Rust errors.
Init == InitAdapter /\ rawShape = "string" /\ codec = NoCodec /\ observed = FALSE

\* The same, with the calls' histories recorded.
InitObserved == InitAdapter /\ rawShape = "string" /\ codec = NoCodec /\ observed = TRUE

\* One statement call, with any list of parameters.
InitCodec ==
  /\ InitAdapter
  /\ rawShape = "string"
  /\ observed = FALSE
  /\ codec \in { [NoCodec EXCEPT !.pc = "call", !.params = ps] : ps \in ParamLists }

\* The transport's rejections in any of the three shapes.
InitErrors == InitAdapter /\ rawShape \in RawShapes /\ codec = NoCodec /\ observed = FALSE

\* One transaction() call at a time, every statement path, the flush timer.
Next ==
  \/ \E names \in SUBSET UserTableNames : registerUserTables(names)
  \/ \E sql \in Statements, ok \in BOOLEAN : execute(sql, ok)
  \/ \E sql \in Statements, ok \in BOOLEAN : executeBatch(sql, Given(<<ParamSet1>>), ok)
  \/ fireTableUpdates
  \/ \E w \in BOOLEAN, ok \in BOOLEAN : begin_transaction(1, w, ok)
  \/ \E sql \in Statements, ok \in BOOLEAN, p \in BOOLEAN : tx_execute(1, sql, ok, p)
  \/ \E sql \in QueryStatements, ok \in BOOLEAN, p \in BOOLEAN : tx_executeRaw(1, sql, ok, p)
  \/ \E ok \in BOOLEAN, p \in BOOLEAN : tx_getAll(1, ok, p)
  \/ \E ok \in BOOLEAN, p \in BOOLEAN : tx_getOptional(1, ok, p)
  \/ \E a \in {"row1", "null", "fail"}, p \in BOOLEAN : tx_get(1, a, p)
  \/ \E ok \in BOOLEAN, p \in BOOLEAN : tx_rollback(1, ok, p)
  \/ \E ok \in BOOLEAN, p \in BOOLEAN : tx_commit(1, ok, p)
  \/ \E v \in ReturnValues : callback_return(1, v)
  \/ \E e \in {CallbackError} : callback_throw(1, e)
  \/ \E ok \in BOOLEAN : transaction_try(1, ok)
  \/ \E ok \in BOOLEAN : transaction_catch(1, ok)

Spec == Init /\ [][Next]_vars

\* Statements of the callbacks where the SQL text does not matter.
ConcurrentStatements == { Sql("INSERT", "todos", FALSE) }

\* Every path into queueTableUpdate (execute, executeBatch, explicit and
\* implicit commit), with the scheduling the event loop guarantees: a timer
\* set with setTimeout(..., 0) does fire.
NextNotifier ==
  \/ \E names \in SUBSET UserTableNames : registerUserTables(names)
  \/ \E sql \in Statements, ok \in BOOLEAN : execute(sql, ok)
  \/ \E sql \in Statements, ok \in BOOLEAN : executeBatch(sql, Given(<<ParamSet1>>), ok)
  \/ fireTableUpdates
  \/ \E ok \in BOOLEAN : begin_transaction(1, TRUE, ok)
  \/ \E sql \in ConcurrentStatements, ok \in BOOLEAN : tx_execute(1, sql, ok, TRUE)
  \/ \E ok \in BOOLEAN : tx_commit(1, ok, TRUE)
  \/ callback_return(1, "success")
  \/ \E ok \in BOOLEAN : transaction_try(1, ok)
  \/ \E ok \in BOOLEAN : transaction_catch(1, ok)

SpecLive == Init /\ [][NextNotifier]_vars /\ WF_vars(fireTableUpdates)

\* Two transaction() calls in flight on the same adapter, their segments
\* interleaved; the callbacks write one logical table.
NextConcurrent ==
  \/ fireTableUpdates
  \/ \E i \in Calls, w \in BOOLEAN, ok \in BOOLEAN : begin_transaction(i, w, ok)
  \/ \E i \in Calls, sql \in ConcurrentStatements, ok \in BOOLEAN, p \in BOOLEAN : tx_execute(i, sql, ok, p)
  \/ \E i \in Calls, ok \in BOOLEAN, p \in BOOLEAN : tx_rollback(i, ok, p)
  \/ \E i \in Calls, ok \in BOOLEAN, p \in BOOLEAN : tx_commit(i, ok, p)
  \/ \E i \in Calls, v \in ReturnValues : callback_return(i, v)
  \/ \E i \in Calls : callback_throw(i, CallbackError)
  \/ \E i \in Calls, ok \in BOOLEAN : transaction_try(i, ok)
  \/ \E i \in Calls, ok \in BOOLEAN : transaction_catch(i, ok)

SpecConcurrent == Init /\ [][NextConcurrent]_vars
\* One TauriPowerSyncDatabase: init() and close() calls that may overlap, and
\* the data operations, each delegating to the adapter once the guard passes.
\* What the adapter does after the delegation (the transaction's callback, the
\* notifier's timer) is in Spec.
NextFacade ==
  \/ \E k \in FacadeCalls, ok \in BOOLEAN : db_init_call(k, ok)
  \/ \E k \in FacadeCalls : db_init_resume(k)
  \/ \E k \in FacadeCalls, ok \in BOOLEAN : db_close_call(k, ok)
  \/ \E k \in FacadeCalls : db_close_resume(k)
  \/ \E sql \in FacadeStatements, ok \in BOOLEAN : db_execute(sql, ok)
  \/ \E sql \in FacadeStatements, ok \in BOOLEAN : db_executeRaw(sql, ok)
  \/ \E sql \in FacadeStatements, ok \in BOOLEAN : db_getAll(sql, ok)
  \/ \E sql \in FacadeStatements, a \in FacadeAnswers : db_getOptional(sql, a)
  \/ \E sql \in FacadeStatements, a \in FacadeAnswers : db_get(sql, a)
  \/ \E sql \in FacadeStatements, pb \in FacadeBatches, ok \in BOOLEAN : db_executeBatch(sql, pb, ok)
  \/ \E ok \in BOOLEAN : db_readTransaction(1, ok)
  \/ \E ok \in BOOLEAN : db_writeTransaction(1, ok)

SpecFacade == Init /\ [][NextFacade]_vars

\* The operations of one adapter that send commands, with the transport
\* rejecting in any one of its shapes, and a callback that may throw a value
\* of its own.
ErrorStatements == { Sql("INSERT", "todos", FALSE) }

NextErrors ==
  \/ \E ok \in BOOLEAN : adapter_open(ok)
  \/ \E ok \in BOOLEAN : adapter_close(ok)
  \/ \E sql \in ErrorStatements, ok \in BOOLEAN : executeBatch(sql, Given(<<ParamSet1>>), ok)
  \/ \E sql \in ErrorStatements, ok \in BOOLEAN : getAll(sql, ok)
  \/ \E sql \in ErrorStatements, a \in {"row1", "null", "fail"} : get(sql, a)
  \/ \E ok \in BOOLEAN : begin_transaction(1, TRUE, ok)
  \/ \E sql \in ErrorStatements, ok \in BOOLEAN : tx_execute(1, sql, ok, TRUE)
  \/ \E a \in {"row1", "null", "fail"} : tx_get(1, a, TRUE)
  \/ \E ok \in BOOLEAN : tx_commit(1, ok, TRUE)
  \/ \E ok \in BOOLEAN : tx_rollback(1, ok, TRUE)
  \/ callback_return(1, "success")
  \/ \E e \in CallbackThrows : callback_throw(1, e)
  \/ \E ok \in BOOLEAN : transaction_try(1, ok)
  \/ \E ok \in BOOLEAN : transaction_catch(1, ok)

SpecErrors == InitErrors /\ [][NextErrors]_vars

\* The query and batch operations of one adapter, directly and on the context
\* of one transaction.
NextQueries ==
  \/ \E sql \in QueryStatements, ok \in BOOLEAN : executeRaw(sql, ok)
  \/ \E sql \in QueryStatements, ok \in BOOLEAN : getAll(sql, ok)
  \/ \E sql \in QueryStatements, a \in GetAnswers : getOptional(sql, a)
  \/ \E sql \in QueryStatements, a \in GetAnswers : get(sql, a)
  \/ \E sql \in BatchStatements, pb \in ParamsBatches, ok \in BOOLEAN : executeBatch(sql, pb, ok)
  \/ \E w \in BOOLEAN, ok \in BOOLEAN : begin_transaction(1, w, ok)
  \/ \E ok \in BOOLEAN, p \in BOOLEAN : tx_getAll(1, ok, p)
  \/ \E ok \in BOOLEAN, p \in BOOLEAN : tx_getOptional(1, ok, p)
  \/ \E a \in GetAnswers, p \in BOOLEAN : tx_get(1, a, p)
  \/ \E v \in ReturnValues : callback_return(1, v)
  \/ callback_throw(1, CallbackError)
  \/ \E ok \in BOOLEAN : transaction_try(1, ok)
  \/ \E ok \in BOOLEAN : transaction_catch(1, ok)
  \/ fireTableUpdates

SpecQueries == Init /\ [][NextQueries]_vars

\* One call on the adapter, made through writeLock or as a transaction of the
\* caller's own.
LockStatements == { Sql("INSERT", "todos", FALSE) }

NextWriteLock ==
  \/ \E ok \in BOOLEAN : writeLock(1, ok)
  \/ \E w \in BOOLEAN, ok \in BOOLEAN : begin_transaction(1, w, ok)
  \/ \E sql \in LockStatements, ok \in BOOLEAN, p \in BOOLEAN : tx_execute(1, sql, ok, p)
  \/ \E sql \in QueryStatements, ok \in BOOLEAN, p \in BOOLEAN : tx_executeRaw(1, sql, ok, p)
  \/ \E ok \in BOOLEAN, p \in BOOLEAN : tx_getAll(1, ok, p)
  \/ \E ok \in BOOLEAN, p \in BOOLEAN : tx_getOptional(1, ok, p)
  \/ \E a \in {"row1", "null", "fail"}, p \in BOOLEAN : tx_get(1, a, p)
  \/ \E ok \in BOOLEAN, p \in BOOLEAN : tx_rollback(1, ok, p)
  \/ \E ok \in BOOLEAN, p \in BOOLEAN : tx_commit(1, ok, p)
  \/ \E v \in ReturnValues : callback_return(1, v)
  \/ callback_throw(1, CallbackError)
  \/ \E ok \in BOOLEAN : transaction_try(1, ok)
  \/ \E ok \in BOOLEAN : transaction_catch(1, ok)
  \/ fireTableUpdates

SpecWriteLock == Init /\ [][NextWriteLock]_vars

\* One readLock call and the statements its callback makes on the context.
LockOutcomes ==
  { Resolved("success"), Resolved("other"), Rejected(CallbackError), Rejected(NotFoundError) }

NextReadLock ==
  \/ readLock
  \/ \E sql \in Statements, ok \in BOOLEAN : ctx_execute(sql, ok)
  \/ \E sql \in QueryStatements, ok \in BOOLEAN : ctx_executeRaw(sql, ok)
  \/ \E sql \in QueryStatements, ok \in BOOLEAN : ctx_getAll(sql, ok)
  \/ \E sql \in QueryStatements, a \in GetAnswers : ctx_getOptional(sql, a)
  \/ \E sql \in QueryStatements, a \in GetAnswers : ctx_get(sql, a)
  \/ \E o \in LockOutcomes : readLock_settle(o)
  \/ fireTableUpdates

SpecReadLock == Init /\ [][NextReadLock]_vars

\* obtainLock calls that may overlap, each with its own signal and callback.
NextObtainLock ==
  \/ \E k \in LockCalls, signal \in Signals : obtainLock(k, signal)
  \/ \E k \in LockCalls, o \in LockOutcomes : obtainLock_settle(k, o)

SpecObtainLock == Init /\ [][NextObtainLock]_vars

\* A statement with parameters, from the call to the values a query reads back.
NextCodec ==
  \/ codec_encode
  \/ \E ok \in BOOLEAN : codec_store(ok)
  \/ \E ok \in BOOLEAN : codec_read(ok)

SpecCodec == InitCodec /\ [][NextCodec]_vars

\* Two write transactions in flight on the same adapter, their callbacks
\* writing and querying through their own contexts.
NextIsolation ==
  \/ \E i \in Calls, ok \in BOOLEAN : begin_transaction(i, TRUE, ok)
  \/ \E i \in Calls, sql \in ConcurrentStatements, ok \in BOOLEAN : tx_execute(i, sql, ok, TRUE)
  \/ \E i \in Calls, ok \in BOOLEAN : tx_getAll(i, ok, TRUE)
  \/ \E i \in Calls, ok \in BOOLEAN : tx_getOptional(i, ok, TRUE)
  \/ \E i \in Calls, a \in {"row1", "fail"} : tx_get(i, a, TRUE)
  \/ \E i \in Calls, v \in {"success"} : callback_return(i, v)
  \/ \E i \in Calls : callback_throw(i, CallbackError)
  \/ \E i \in Calls, ok \in BOOLEAN : transaction_try(i, ok)
  \/ \E i \in Calls, ok \in BOOLEAN : transaction_catch(i, ok)
  \/ fireTableUpdates

SpecIsolation == InitObserved /\ [][NextIsolation]_vars

\* One transaction() call with powersync_control statements, the registration
\* of the user tables before it and the flush after it.
NextControl ==
  \/ \E names \in SUBSET UserTableNames : registerUserTables(names)
  \/ \E w \in BOOLEAN, ok \in BOOLEAN : begin_transaction(1, w, ok)
  \/ \E sql \in LockStatements, ok \in BOOLEAN, p \in BOOLEAN : tx_execute(1, sql, ok, p)
  \/ \E sql \in QueryStatements, ok \in BOOLEAN, p \in BOOLEAN : tx_executeRaw(1, sql, ok, p)
  \/ \E ok \in BOOLEAN, p \in BOOLEAN : tx_rollback(1, ok, p)
  \/ \E ok \in BOOLEAN, p \in BOOLEAN : tx_commit(1, ok, p)
  \/ \E v \in ReturnValues : callback_return(1, v)
  \/ callback_throw(1, CallbackError)
  \/ \E ok \in BOOLEAN : transaction_try(1, ok)
  \/ \E ok \in BOOLEAN : transaction_catch(1, ok)
  \/ fireTableUpdates

SpecControl == InitObserved /\ [][NextControl]_vars

\* What a step of a call may be given.
ProtocolInputs ==
  { In("begin", NoSql, Ans(ok), FALSE) : ok \in BOOLEAN }
    \cup { In("execute", sql, Ans(ok), p) : sql \in LockStatements, ok \in BOOLEAN, p \in BOOLEAN }
    \cup { In("executeRaw", sql, Ans(ok), TRUE) : sql \in QueryStatements, ok \in BOOLEAN }
    \cup { In("getAll", NoSql, Ans(ok), TRUE) : ok \in BOOLEAN }
    \cup { In("getOptional", NoSql, Ans(ok), TRUE) : ok \in BOOLEAN }
    \cup { In("get", NoSql, a, TRUE) : a \in {"row1", "null"} }
    \cup { In("rollback", NoSql, Ans(ok), p) : ok \in BOOLEAN, p \in BOOLEAN }
    \cup { In("commit", NoSql, Ans(ok), p) : ok \in BOOLEAN, p \in BOOLEAN }
    \cup { In("return", NoSql, v, FALSE) : v \in ReturnValues }
    \cup { In("throw", NoSql, CallbackError, FALSE) }
    \cup { In("try", NoSql, Ans(ok), FALSE) : ok \in BOOLEAN }
    \cup { In("catch", NoSql, Ans(ok), FALSE) : ok \in BOOLEAN }

\* The step of call i that in calls for; w is the kind of the transaction.
ProtocolStep(i, w, in) ==
  \/ in.op = "begin" /\ begin_transaction(i, w, in.answer = "ok")
  \/ in.op = "execute" /\ tx_execute(i, in.sql, in.answer = "ok", in.propagate)
  \/ in.op = "executeRaw" /\ tx_executeRaw(i, in.sql, in.answer = "ok", in.propagate)
  \/ in.op = "getAll" /\ tx_getAll(i, in.answer = "ok", in.propagate)
  \/ in.op = "getOptional" /\ tx_getOptional(i, in.answer = "ok", in.propagate)
  \/ in.op = "get" /\ tx_get(i, in.answer, in.propagate)
  \/ in.op = "rollback" /\ tx_rollback(i, in.answer = "ok", in.propagate)
  \/ in.op = "commit" /\ tx_commit(i, in.answer = "ok", in.propagate)
  \/ in.op = "return" /\ callback_return(i, in.answer)
  \/ in.op = "throw" /\ callback_throw(i, in.answer)
  \/ in.op = "try" /\ transaction_try(i, in.answer = "ok")
  \/ in.op = "catch" /\ transaction_catch(i, in.answer = "ok")

\* A readTransaction or writeTransaction call runs to its end; then a call of
\* the other kind is given, step for step, what the first was given.
NextProtocol ==
  \/ \E w \in BOOLEAN, in \in ProtocolInputs : ProtocolStep(1, w, in)
  \/ /\ pc[1] = "done"
     /\ Len(hist[2]) < Len(hist[1])
     /\ ProtocolStep(2, ~isWrite[1], hist[1][Len(hist[2]) + 1].in)

SpecProtocol == InitObserved /\ [][NextProtocol]_vars

\* One TauriWebSocket from its construction on: the plugin settles connect
\* and disconnect and delivers messages, the user calls send() and close().
NextWebSocket ==
  \/ \E ok \in BOOLEAN : connect(ok)
  \/ \E type \in MessageTypes : handleMessage(type)
  \/ \E data \in SendData : send(data)
  \/ \E ok \in BOOLEAN : send_arrayBuffer(ok)
  \/ ws_close
  \/ \E ok \in BOOLEAN : disconnect(ok)

SpecWebSocket == Init /\ [][NextWebSocket]_vars

====
